---------------------------- MODULE Spec2Model ----------------------------
(***************************************************************************)
(* Ghost Tracks backend: the street mapper, the shape validator and the    *)
(* retry loop of ShapeGenerator.generate_from_description.                 *)
(*                                                                         *)
(* Numbers.  Coordinates are integers on a lattice of 1 m in a local       *)
(* planar frame (the float degrees of the source, at city scale).          *)
(* Distances are fixed-point integers in centimetres (DIST_SCALE units per *)
(* metre), so the source's thresholds 12.0 m and 80.0 m are 1200 and 8000. *)
(* Scores are computed in exact rational arithmetic and rounded half to    *)
(* even, as Python's round() does.                                         *)
(***************************************************************************)
EXTENDS Integers, Sequences, FiniteSets, TLC

\* ------------------------------------------------------------------------
\* Arithmetic helpers
\* ------------------------------------------------------------------------

Min2(a, b) == IF a <= b THEN a ELSE b
Max2(a, b) == IF a >= b THEN a ELSE b
Abs(a) == IF a < 0 THEN -a ELSE a

RECURSIVE ISqrtIter(_, _, _)
ISqrtIter(n, lo, hi) ==
    IF lo >= hi THEN lo
    ELSE LET mid == (lo + hi + 1) \div 2
         IN  IF mid * mid <= n THEN ISqrtIter(n, mid, hi)
                               ELSE ISqrtIter(n, lo, mid - 1)

\* floor(sqrt(n)) for 0 <= n < 2^31
ISqrt(n) == ISqrtIter(n, 0, 46340)

\* Python round(num/den) for num >= 0, den > 0: ties go to the even integer.
round(num, den) ==
    LET q == num \div den
        r == num % den
    IN  IF 2 * r < den THEN q
        ELSE IF 2 * r > den THEN q + 1
        ELSE IF q % 2 = 0 THEN q ELSE q + 1

\* The quotient rounded down where math.ceil rounds up.
ceil_rounding_down(num, den) == num \div den

\* math.ceil(num/den) for num >= 0, den > 0
ceil(num, den) == (num + den - 1) \div den

\* min(s) and max(s) of a non-empty list
SeqMin(s) ==
    CHOOSE m \in {s[i] : i \in 1..Len(s)} : \A i \in 1..Len(s) : m <= s[i]

SeqMax(s) ==
    CHOOSE m \in {s[i] : i \in 1..Len(s)} : \A i \in 1..Len(s) : m >= s[i]

RECURSIVE SeqSum(_)
SeqSum(s) == IF s = <<>> THEN 0 ELSE s[1] + SeqSum(Tail(s))

\* sorted(s): element i of s goes to the position that the number of
\* elements before it in the order (equal ones keep their order) gives.
sorted(s) ==
    LET n == Len(s)
        position == [i \in 1..n |->
                        1 + Cardinality({j \in 1..n : s[j] < s[i]
                                                     \/ (s[j] = s[i] /\ j < i)})]
    IN  [k \in 1..n |-> s[CHOOSE i \in 1..n : position[i] = k]]

\* ------------------------------------------------------------------------
\* models/schemas.py
\* ------------------------------------------------------------------------

Coordinate(x, y) == [lng |-> x, lat |-> y]

BoundingBox(x0, y0, x1, y1) ==
    [min_lng |-> x0, min_lat |-> y0, max_lng |-> x1, max_lat |-> y1]

width_deg(bbox) == bbox.max_lng - bbox.min_lng
height_deg(bbox) == bbox.max_lat - bbox.min_lat

\* What a pydantic constructor gives when a field constraint is violated.
ValidationError == [error |-> "ValidationError"]

\* ValidationResult with a score field that has no constraint.
ValidationResult_unconstrained(score, passed, method, reasoning) ==
    [score |-> score, passed |-> passed, method |-> method,
     reasoning |-> reasoning]

\* ValidationResult: score has Field(ge=0, le=100).
ValidationResult(score, passed, method, reasoning) ==
    IF score >= 0 /\ score <= 100
    THEN [score |-> score, passed |-> passed, method |-> method,
          reasoning |-> reasoning]
    ELSE ValidationError

\* ------------------------------------------------------------------------
\* services/street_mapper.py: geodesy
\* ------------------------------------------------------------------------

\* Fixed-point units of distance per metre.
DIST_SCALE == 100

\* Great-circle distance, on the planar lattice: sqrt(dx^2 + dy^2), in
\* centimetres, rounded down.
haversine_distance_m(a, b) ==
    LET dx == b.lng - a.lng
        dy == b.lat - a.lat
    IN  ISqrt(DIST_SCALE * DIST_SCALE * (dx * dx + dy * dy))


\* The direction of travel from a to b.  The source returns the initial
\* bearing in degrees, atan2(x, y) % 360; the model keeps the vector the
\* bearing is the angle of.  For a = b the source computes atan2(0, 0) = 0,
\* the bearing of due north.
_bearing_deg(a, b) ==
    IF a.lng = b.lng /\ a.lat = b.lat
    THEN [x |-> 0, y |-> 1]
    ELSE [x |-> b.lng - a.lng, y |-> b.lat - a.lat]

Dot(u, v) == u.x * v.x + u.y * v.y
Cross(u, v) == u.x * v.y - u.y * v.x
NormSq(u) == u.x * u.x + u.y * u.y

\* angle_change > 20 for the bearings b_in, b_out, where angle_change is
\* |b_out - b_in| folded into [0, 180]: the angle between the two
\* directions.  cos(20 deg)^2 = 0.883.
angle_change_gt_20(b_in, b_out) ==
    ~(Dot(b_in, b_out) > 0
      /\ 1000 * Dot(b_in, b_out) * Dot(b_in, b_out)
           >= 883 * NormSq(b_in) * NormSq(b_out))

\* ------------------------------------------------------------------------
\* services/street_mapper.py: StreetMapper
\* ------------------------------------------------------------------------

\* The source clamps a zero extent to 1e-6 degrees, about a tenth of the
\* lattice unit: 1/EPS_INV.
EPS_INV == 10

\* floor(num/den + 1/2): the lattice point nearest to num/den (den > 0).
Nearest(num, den) == (2 * num + den) \div (2 * den)

Lngs(points) == [i \in 1..Len(points) |-> points[i].lng]
Lats(points) == [i \in 1..Len(points) |-> points[i].lat]

\* scale_to_bbox fitting the points to the whole target bbox, no padding.
scale_to_bbox_unpadded(points, target_bbox) ==
    IF points = <<>> THEN <<>>
    ELSE
    LET s_min_lng == SeqMin(Lngs(points))
        s_max_lng == SeqMax(Lngs(points))
        s_min_lat == SeqMin(Lats(points))
        s_max_lat == SeqMax(Lats(points))
        \* s_width, s_height as fractions n/d ("or 1e-6")
        sw_n == IF s_max_lng - s_min_lng = 0 THEN 1 ELSE s_max_lng - s_min_lng
        sw_d == IF s_max_lng - s_min_lng = 0 THEN EPS_INV ELSE 1
        sh_n == IF s_max_lat - s_min_lat = 0 THEN 1 ELSE s_max_lat - s_min_lat
        sh_d == IF s_max_lat - s_min_lat = 0 THEN EPS_INV ELSE 1
        \* t_width = width, t_height = height
        tw5 == 5 * width_deg(target_bbox)
        th5 == 5 * height_deg(target_bbox)
        \* scale = min(t_width / s_width, t_height / s_height) = num/den
        useW == tw5 * sw_d * sh_n <= th5 * sh_d * sw_n
        num == IF useW THEN tw5 * sw_d ELSE th5 * sh_d
        den == IF useW THEN 5 * sw_n ELSE 5 * sh_n
        \* t_cx + (p - s_cx) * scale, with t_cx and s_cx the two midpoints
        sx(p) == Nearest((target_bbox.min_lng + target_bbox.max_lng) * den
                          + (2 * p.lng - s_min_lng - s_max_lng) * num, 2 * den)
        sy(p) == Nearest((target_bbox.min_lat + target_bbox.max_lat) * den
                          + (2 * p.lat - s_min_lat - s_max_lat) * num, 2 * den)
    IN  [i \in 1..Len(points) |-> Coordinate(sx(points[i]), sy(points[i]))]

scale_to_bbox(points, target_bbox) ==
    IF points = <<>> THEN <<>>
    ELSE
    LET s_min_lng == SeqMin(Lngs(points))
        s_max_lng == SeqMax(Lngs(points))
        s_min_lat == SeqMin(Lats(points))
        s_max_lat == SeqMax(Lats(points))
        \* s_width, s_height as fractions n/d ("or 1e-6")
        sw_n == IF s_max_lng - s_min_lng = 0 THEN 1 ELSE s_max_lng - s_min_lng
        sw_d == IF s_max_lng - s_min_lng = 0 THEN EPS_INV ELSE 1
        sh_n == IF s_max_lat - s_min_lat = 0 THEN 1 ELSE s_max_lat - s_min_lat
        sh_d == IF s_max_lat - s_min_lat = 0 THEN EPS_INV ELSE 1
        \* t_width = width - 2 * 0.1 * width = 4/5 width, likewise t_height
        tw5 == 4 * width_deg(target_bbox)
        th5 == 4 * height_deg(target_bbox)
        \* scale = min(t_width / s_width, t_height / s_height) = num/den
        useW == tw5 * sw_d * sh_n <= th5 * sh_d * sw_n
        num == IF useW THEN tw5 * sw_d ELSE th5 * sh_d
        den == IF useW THEN 5 * sw_n ELSE 5 * sh_n
        \* t_cx + (p - s_cx) * scale, with t_cx and s_cx the two midpoints
        sx(p) == Nearest((target_bbox.min_lng + target_bbox.max_lng) * den
                          + (2 * p.lng - s_min_lng - s_max_lng) * num, 2 * den)
        sy(p) == Nearest((target_bbox.min_lat + target_bbox.max_lat) * den
                          + (2 * p.lat - s_min_lat - s_max_lat) * num, 2 * den)
    IN  [i \in 1..Len(points) |-> Coordinate(sx(points[i]), sy(points[i]))]

\* The interior points densify inserts between a and b.
Interpolated(a, b, n_segments) ==
    [j \in 1..(n_segments - 1) |->
        Coordinate(a.lng + Nearest((b.lng - a.lng) * j, n_segments),
                   a.lat + Nearest((b.lat - a.lat) * j, n_segments))]

RECURSIVE DensifyFrom(_, _, _)
DensifyFrom(points, i, max_segment_m) ==
    IF i > Len(points) - 1 THEN <<>>
    ELSE LET a == points[i]
             b == points[i + 1]
             dist == haversine_distance_m(a, b)
         IN  (IF dist > max_segment_m
              THEN Interpolated(a, b, ceil(dist, max_segment_m))
              ELSE <<>>)
             \o <<b>> \o DensifyFrom(points, i + 1, max_segment_m)

densify(points, max_segment_m) ==
    IF Len(points) < 2 THEN points
    ELSE <<points[1]>> \o DensifyFrom(points, 1, max_segment_m)

\* The loop of deduplicate with the bearing test the wrong way round: a
\* close point is kept when the bearing change is at most 20 degrees.
RECURSIVE DedupFrom_keeping_straight(_, _, _, _)
DedupFrom_keeping_straight(points, i, result, min_distance_m) ==
    IF i > Len(points) THEN result
    ELSE LET p == points[i]
             prev == result[Len(result)]
             dist == haversine_distance_m(prev, p)
             keep ==
                 IF dist >= min_distance_m THEN TRUE
                 ELSE IF i < Len(points)
                      THEN ~angle_change_gt_20(_bearing_deg(prev, p),
                                               _bearing_deg(p, points[i + 1]))
                      ELSE FALSE
         IN  DedupFrom_keeping_straight(points, i + 1,
                       IF keep THEN Append(result, p) ELSE result,
                       min_distance_m)

\* The loop of deduplicate from index i on, result being what is kept so far.
RECURSIVE DedupFrom(_, _, _, _)
DedupFrom(points, i, result, min_distance_m) ==
    IF i > Len(points) THEN result
    ELSE LET p == points[i]
             prev == result[Len(result)]
             dist == haversine_distance_m(prev, p)
             keep ==
                 IF dist >= min_distance_m THEN TRUE
                 ELSE IF i < Len(points)
                      THEN angle_change_gt_20(_bearing_deg(prev, p),
                                              _bearing_deg(p, points[i + 1]))
                      ELSE FALSE
         IN  DedupFrom(points, i + 1,
                       IF keep THEN Append(result, p) ELSE result,
                       min_distance_m)

\* deduplicate returning what its loop kept, the last point not added.
deduplicate_loop_only(points, min_distance_m) ==
    IF Len(points) < 2 THEN points
    ELSE DedupFrom(points, 2, <<points[1]>>, min_distance_m)

deduplicate(points, min_distance_m) ==
    IF Len(points) < 2 THEN points
    ELSE LET result == DedupFrom(points, 2, <<points[1]>>, min_distance_m)
         IN  \* always keep the last point
             IF result[Len(result)] # points[Len(points)]
             THEN Append(result, points[Len(points)])
             ELSE result

\* The indices (1-based) of the input points the loop of deduplicate keeps,
\* from index i on; kept is the indices kept so far.
RECURSIVE DedupIndicesFrom(_, _, _, _)
DedupIndicesFrom(points, i, kept, min_distance_m) ==
    IF i > Len(points) THEN kept
    ELSE LET p == points[i]
             prev == points[kept[Len(kept)]]
             dist == haversine_distance_m(prev, p)
             keep ==
                 IF dist >= min_distance_m THEN TRUE
                 ELSE IF i < Len(points)
                      THEN angle_change_gt_20(_bearing_deg(prev, p),
                                              _bearing_deg(p, points[i + 1]))
                      ELSE FALSE
         IN  DedupIndicesFrom(points, i + 1,
                              IF keep THEN Append(kept, i) ELSE kept,
                              min_distance_m)

\* The index of the input point each point of deduplicate's result is.
deduplicate_indices(points, min_distance_m) ==
    IF Len(points) < 2 THEN [i \in 1..Len(points) |-> i]
    ELSE LET kept == DedupIndicesFrom(points, 2, <<1>>, min_distance_m)
         IN  IF points[kept[Len(kept)]] # points[Len(points)]
             THEN Append(kept, Len(points))
             ELSE kept

\* max_segment_m = 80.0 and min_distance_m = 12.0 of map_to_streets
MAX_SEGMENT_M == 80
MIN_DISTANCE_M == 12

\* map_to_streets returning the densified points, the deduplicate step left
\* out.
map_to_streets_dense(control_points, target_bbox) ==
    LET scaled == scale_to_bbox(control_points, target_bbox)
        dense == densify(scaled, MAX_SEGMENT_M * DIST_SCALE)
    IN  dense

map_to_streets(control_points, target_bbox) ==
    LET scaled == scale_to_bbox(control_points, target_bbox)
        dense == densify(scaled, MAX_SEGMENT_M * DIST_SCALE)
        clean == deduplicate(dense, MIN_DISTANCE_M * DIST_SCALE)
    IN  clean

\* The sum of the consecutive distances, in the distance unit.
RECURSIVE PathLength(_)
PathLength(points) ==
    IF Len(points) < 2 THEN 0
    ELSE haversine_distance_m(points[1], points[2]) + PathLength(Tail(points))

\* round(total / 1000, 1), in tenths of a kilometre.
estimate_distance_km(points) == round(PathLength(points), 100 * DIST_SCALE)

\* ------------------------------------------------------------------------
\* services/shape_validator.py: the three metrics
\* ------------------------------------------------------------------------

\* VALIDATION_THRESHOLD, the default of SHAPE_VALIDATION_THRESHOLD
VALIDATION_THRESHOLD == 45

\* Bounding boxes of the validator are kept in units of 1/BBOX_UNIT of the
\* lattice unit, so that the 10% padding and the 1e-6 clamp are exact.
BBOX_UNIT == 10 * EPS_INV

\* Needs at least one point in points_a + points_b: min() of an empty list
\* raises ValueError in the source.
_compute_shared_bbox(points_a, points_b) ==
    LET all_lngs == Lngs(points_a) \o Lngs(points_b)
        all_lats == Lats(points_a) \o Lats(points_b)
        min_lng == SeqMin(all_lngs)
        max_lng == SeqMax(all_lngs)
        min_lat == SeqMin(all_lats)
        max_lat == SeqMax(all_lats)
        \* w = max_lng - min_lng or 1e-6, h likewise
        w == IF max_lng - min_lng = 0 THEN BBOX_UNIT \div EPS_INV
             ELSE (max_lng - min_lng) * BBOX_UNIT
        h == IF max_lat - min_lat = 0 THEN BBOX_UNIT \div EPS_INV
             ELSE (max_lat - min_lat) * BBOX_UNIT
        \* padding_pct = 0.1
    IN  BoundingBox(min_lng * BBOX_UNIT - w \div 10,
                    min_lat * BBOX_UNIT - h \div 10,
                    max_lng * BBOX_UNIT + w \div 10,
                    max_lat * BBOX_UNIT + h \div 10)

\* to_pixel of rasterize_route: int() of a non-negative quotient.
to_pixel(c, bbox, size) ==
    LET w == bbox.max_lng - bbox.min_lng
        h == bbox.max_lat - bbox.min_lat
    IN  [x |-> ((c.lng * BBOX_UNIT - bbox.min_lng) * (size - 1)) \div w,
         y |-> ((bbox.max_lat - c.lat * BBOX_UNIT) * (size - 1)) \div h]

\* The pixels ImageDraw.line paints for one segment of the given width: a
\* square brush of side line_width moved along the segment, clipped to the
\* canvas.
Stroke(p, q, size, line_width) ==
    LET dx == q.x - p.x
        dy == q.y - p.y
        n == Max2(Abs(dx), Abs(dy))
        lo == line_width \div 2
        hi == (line_width - 1) \div 2
        At(t) == IF n = 0 THEN p
                 ELSE [x |-> p.x + Nearest(dx * t, n),
                       y |-> p.y + Nearest(dy * t, n)]
    IN  UNION {
          {<<x, y>> : x \in Max2(0, At(t).x - lo)..Min2(size - 1, At(t).x + hi),
                      y \in Max2(0, At(t).y - lo)..Min2(size - 1, At(t).y + hi)}
          : t \in 0..n }

\* The set of white pixels of the image.
rasterize_route(coords, bbox, size, line_width) ==
    LET pixels == [i \in 1..Len(coords) |-> to_pixel(coords[i], bbox, size)]
    IN  IF Len(pixels) >= 2
        THEN UNION { Stroke(pixels[i], pixels[i + 1], size, line_width)
                     : i \in 1..(Len(pixels) - 1) }
        ELSE {}

\* min(haversine_distance_m(s, t) for t in tgt), for each s of src
directed_distances(src, tgt) ==
    [i \in 1..Len(src) |->
        SeqMin([j \in 1..Len(tgt) |-> haversine_distance_m(src[i], tgt[j])])]

\* numpy.percentile(a, q) with linear interpolation, as the fraction
\* num/den: position q/100 * (N - 1) in the sorted values.
percentile(a, q) ==
    LET s == sorted(a)
        pos == q * (Len(s) - 1)
        i == pos \div 100
        r == pos % 100
    IN  [num |-> IF r = 0 THEN 100 * s[i + 1]
                 ELSE (100 - r) * s[i + 1] + r * s[i + 2],
         den |-> 100]

\* percentile = 90
_modified_hausdorff_distance(points_a, points_b) ==
    LET d_ab == directed_distances(points_a, points_b)
        d_ba == directed_distances(points_b, points_a)
    IN  percentile(d_ab \o d_ba, 90)

\* cumlen of _resample_curve: cumlen[i] is the arc length up to points[i].
RECURSIVE CumLen(_, _)
CumLen(points, i) ==
    IF i = 1 THEN <<0>>
    ELSE LET c == CumLen(points, i - 1)
         IN  Append(c, c[i - 1] + haversine_distance_m(points[i - 1], points[i]))

\* The point of arc length total * k / (n - 1), or nothing when no
\* cumlen[i] reaches it.
ResampledAt(points, cumlen, k, n) ==
    LET total == cumlen[Len(cumlen)]
        hits == {i \in 2..Len(cumlen) : cumlen[i] * (n - 1) >= total * k}
    IN  IF hits = {} THEN <<>>
        ELSE LET i == CHOOSE h \in hits : \A g \in hits : h <= g
                 seg_len == cumlen[i] - cumlen[i - 1]
                 \* frac = fnum / fden
                 fnum == IF seg_len = 0 THEN 0
                         ELSE total * k - cumlen[i - 1] * (n - 1)
                 fden == IF seg_len = 0 THEN 1 ELSE seg_len * (n - 1)
                 a == points[i - 1]
                 b == points[i]
             IN  <<Coordinate(a.lng + Nearest((b.lng - a.lng) * fnum, fden),
                              a.lat + Nearest((b.lat - a.lat) * fnum, fden))>>

RECURSIVE ResampleFrom(_, _, _, _)
ResampleFrom(points, cumlen, k, n) ==
    IF k > n - 1 THEN <<>>
    ELSE ResampledAt(points, cumlen, k, n)
         \o ResampleFrom(points, cumlen, k + 1, n)

_resample_curve(points, n) ==
    IF Len(points) < 2 \/ n < 2
    THEN IF Len(points) >= n THEN SubSeq(points, 1, n) ELSE points
    ELSE LET cumlen == CumLen(points, Len(points))
         IN  IF cumlen[Len(cumlen)] = 0
             THEN [k \in 1..n |-> points[1]]
             ELSE ResampleFrom(points, cumlen, 0, n)

\* The process-wide generator of module random, which any code of the
\* process may draw from, and the calls of _validate_algorithmic made so far
\* in the process.
VARIABLES
    random_state,     \* how many draws the module-level generator has made
    s_log             \* each call's arguments and result, in call order

\* The sampler drawing from the module-level generator, random.sample(
\* range(n), min(50, n)): what it returns depends on the draws made before.
rng_sample_module_level(n, i) ==
    {((random_state + i + k) % n) + 1 : k \in 1..Min2(50, n)}

\* The sampler of _compute_diameter, random.Random(42).sample(range(n),
\* min(50, n)) for point i: a fixed function of n and i, the same on every
\* call.
rng_sample(n, i) == {((i + k) % n) + 1 : k \in 1..Min2(50, n)}

RECURSIVE MaxOver(_, _)
MaxOver(S, acc) ==
    IF S = {} THEN acc
    ELSE LET d == CHOOSE e \in S : TRUE
         IN  MaxOver(S \ {d}, Max2(acc, d))

_compute_diameter(points) ==
    LET n == Len(points)
    IN  IF n < 2 THEN 0
        ELSE IF n <= 60
        THEN MaxOver({haversine_distance_m(points[i], points[j])
                      : i \in 1..n, j \in 1..n}, 0)
        ELSE MaxOver(UNION {{haversine_distance_m(points[i], points[j])
                             : j \in rng_sample(n, i) \ {i}}
                            : i \in 1..n}, 0)

\* n_samples = 50 at the one call
N_SAMPLES == 50

\* _ordered_sampling_score returning normalized * 100 in place of
\* (1.0 - normalized) * 100.
\* dists of _ordered_sampling_score: the distances of the pairs that zip
\* makes of the two resampled polylines.
ordered_sampling_dists(target, actual, n_samples) ==
    LET t_resampled == _resample_curve(target, n_samples)
        a_resampled == _resample_curve(actual, n_samples)
        len == Min2(Len(t_resampled), Len(a_resampled))
    IN  [i \in 1..len |->
            haversine_distance_m(t_resampled[i], a_resampled[i])]

_ordered_sampling_score_inverted(target, actual, n_samples) ==
    LET t_resampled == _resample_curve(target, n_samples)
        a_resampled == _resample_curve(actual, n_samples)
        len == Min2(Len(t_resampled), Len(a_resampled))
        dists == [i \in 1..len |->
                     haversine_distance_m(t_resampled[i], a_resampled[i])]
        diameter == _compute_diameter(target)
    IN  IF t_resampled = <<>> \/ a_resampled = <<>> THEN 0
        ELSE IF diameter = 0 THEN 0
        ELSE IF SeqSum(dists) >= diameter * len THEN 100
        ELSE round(100 * SeqSum(dists), diameter * len)

_ordered_sampling_score(target, actual, n_samples) ==
    LET t_resampled == _resample_curve(target, n_samples)
        a_resampled == _resample_curve(actual, n_samples)
        len == Min2(Len(t_resampled), Len(a_resampled))
        dists == [i \in 1..len |->
                     haversine_distance_m(t_resampled[i], a_resampled[i])]
        diameter == _compute_diameter(target)
    IN  IF t_resampled = <<>> \/ a_resampled = <<>> THEN 0
        ELSE IF diameter = 0 THEN 0
        \* normalized = min(mean_dist / diameter, 1.0)
        ELSE IF SeqSum(dists) >= diameter * len THEN 0
        ELSE round(100 * (diameter * len - SeqSum(dists)), diameter * len)

\* size = 128 and line_width = 12 at the one call; the model's canvas is
\* RASTER_SIZE pixels wide with a brush of RASTER_LINE_WIDTH.
RASTER_SIZE == 16
RASTER_LINE_WIDTH == 2

_raster_iou_score(target, actual, size, line_width) ==
    LET bbox == _compute_shared_bbox(target, actual)
        arr_t == rasterize_route(target, bbox, size, line_width)
        arr_a == rasterize_route(actual, bbox, size, line_width)
        intersection == Cardinality(arr_t \cap arr_a)
        union == Cardinality(arr_t \cup arr_a)
    IN  IF union = 0 THEN 0 ELSE round(100 * intersection, union)

\* ------------------------------------------------------------------------
\* services/shape_validator.py: ShapeValidator
\* ------------------------------------------------------------------------

\* blended with the Hausdorff component inverted (mhd_norm * 100 in place of
\* (1.0 - mhd_norm) * 100): far shapes earn the full 55 points.
blended_inverted_hausdorff(mhd, diameter, os_score, iou_score) ==
    LET full == mhd.den * diameter
        mhd_part == Min2(mhd.num, full)
    IN  [num |-> 55 * mhd_part + (35 * os_score + 10 * iou_score) * diameter,
         den |-> full]

\* 0.55 * mhd_score + 0.35 * os_score + 0.10 * iou_score as the fraction
\* num/den, where mhd_score = (1 - min(mhd / diameter, 1.0)) * 100 and mhd is
\* the fraction mhd.num / 100 that percentile returns:
\*   (55 * (100 D - min(mhd.num, 100 D)) + (35 os + 10 iou) D) / (100 D)
blended(mhd, diameter, os_score, iou_score) ==
    LET full == mhd.den * diameter
        mhd_part == full - Min2(mhd.num, full)
    IN  [num |-> 55 * mhd_part + (35 * os_score + 10 * iou_score) * diameter,
         den |-> full]

\* _validate_algorithmic with "passed=score > threshold" in the blended
\* branch.
_validate_algorithmic_strict(target_points, actual_points, threshold) ==
    IF target_points = <<>> \/ actual_points = <<>>
    THEN ValidationResult(0, FALSE, "algorithmic", "Empty point set")
    ELSE
    LET diameter == _compute_diameter(target_points)
    IN  IF diameter = 0
        THEN ValidationResult(0, FALSE, "algorithmic", "Degenerate shape")
        ELSE
        LET mhd == _modified_hausdorff_distance(target_points, actual_points)
            os_score == _ordered_sampling_score(target_points, actual_points,
                                                N_SAMPLES)
            iou_score == _raster_iou_score(target_points, actual_points,
                                           RASTER_SIZE, RASTER_LINE_WIDTH)
            b == blended(mhd, diameter, os_score, iou_score)
            score == round(b.num, b.den)
        IN  ValidationResult(score, score > threshold, "algorithmic", "Blended")

\* _validate_algorithmic with "passed=0 >= threshold" in place of
\* "passed=False" for an empty point set.
_validate_algorithmic_uniform(target_points, actual_points, threshold) ==
    IF target_points = <<>> \/ actual_points = <<>>
    THEN ValidationResult(0, 0 >= threshold, "algorithmic", "Empty point set")
    ELSE
    LET diameter == _compute_diameter(target_points)
    IN  IF diameter = 0
        THEN ValidationResult(0, FALSE, "algorithmic", "Degenerate shape")
        ELSE
        LET mhd == _modified_hausdorff_distance(target_points, actual_points)
            os_score == _ordered_sampling_score(target_points, actual_points,
                                                N_SAMPLES)
            iou_score == _raster_iou_score(target_points, actual_points,
                                           RASTER_SIZE, RASTER_LINE_WIDTH)
            b == blended(mhd, diameter, os_score, iou_score)
            score == round(b.num, b.den)
        IN  ValidationResult(score, score >= threshold, "algorithmic", "Blended")

_validate_algorithmic(target_points, actual_points, threshold) ==
    IF target_points = <<>> \/ actual_points = <<>>
    THEN ValidationResult(0, FALSE, "algorithmic", "Empty point set")
    ELSE
    LET diameter == _compute_diameter(target_points)
    IN  IF diameter = 0
        THEN ValidationResult(0, FALSE, "algorithmic", "Degenerate shape")
        ELSE
        LET mhd == _modified_hausdorff_distance(target_points, actual_points)
            os_score == _ordered_sampling_score(target_points, actual_points,
                                                N_SAMPLES)
            iou_score == _raster_iou_score(target_points, actual_points,
                                           RASTER_SIZE, RASTER_LINE_WIDTH)
            b == blended(mhd, diameter, os_score, iou_score)
            score == round(b.num, b.den)
        IN  ValidationResult(score, score >= threshold, "algorithmic", "Blended")

\* The helpers one call of _validate_algorithmic runs, in order.
algorithmic_calls(target_points, actual_points) ==
    IF target_points = <<>> \/ actual_points = <<>> THEN <<>>
    ELSE IF _compute_diameter(target_points) = 0 THEN <<"_compute_diameter">>
    ELSE <<"_compute_diameter", "_modified_hausdorff_distance",
           "_ordered_sampling_score", "_raster_iou_score">>

\* What the call of the vision model and the parsing of its reply come to:
\*   import_error  zhipuai cannot be imported
\*   client_error  the client raises (network error, timeout, HTTP error)
\*   unparseable   the reply holds no JSON object
\*   not_object    the JSON is not an object (data.get raises)
\*   bad_score     float(data.get("score", 0)) raises
\*   no_score      the object has no "score": the default 0
\*   score         a score was read: any number
Raised == [error |-> "Exception"]

\* _validate_with_vision returning the judge's score as it is, without the
\* range check of ValidationResult.
_validate_with_vision_unchecked(target_points, actual_points, threshold, reply) ==
    IF reply.kind = "import_error" THEN Raised
    ELSE IF target_points = <<>> /\ actual_points = <<>> THEN Raised
    ELSE IF reply.kind \in {"client_error", "unparseable", "not_object",
                            "bad_score"} THEN Raised
    ELSE LET score == IF reply.kind = "no_score" THEN 0 ELSE reply.score
         IN  [score |-> score, passed |-> score >= threshold,
              method |-> "glm-4v", reasoning |-> "judge"]

\* _validate_with_vision tagging its result as the blended scorer does.
_validate_with_vision_untagged(target_points, actual_points, threshold, reply) ==
    IF reply.kind = "import_error" THEN Raised
    ELSE IF target_points = <<>> /\ actual_points = <<>> THEN Raised
    ELSE IF reply.kind \in {"client_error", "unparseable", "not_object",
                            "bad_score"} THEN Raised
    ELSE LET score == IF reply.kind = "no_score" THEN 0 ELSE reply.score
             r == ValidationResult(score, score >= threshold, "algorithmic",
                                   "judge")
         IN  IF r = ValidationError THEN Raised ELSE r

_validate_with_vision(target_points, actual_points, threshold, reply) ==
    IF reply.kind = "import_error" THEN Raised
    \* _compute_shared_bbox: min() of an empty list
    ELSE IF target_points = <<>> /\ actual_points = <<>> THEN Raised
    ELSE IF reply.kind \in {"client_error", "unparseable", "not_object",
                            "bad_score"} THEN Raised
    ELSE LET score == IF reply.kind = "no_score" THEN 0 ELSE reply.score
             r == ValidationResult(score, score >= threshold, "glm-4v",
                                   "judge")
         IN  IF r = ValidationError THEN Raised ELSE r

\* ------------------------------------------------------------------------
\* services/shape_generator.py: ShapeGenerator helpers
\* ------------------------------------------------------------------------

\* deviation of segment i: the distance from its midpoint to the nearest
\* actual point, 0.0 when there is no actual point.
segment_deviation(target_points, actual_points, i) ==
    LET a == target_points[i]
        b == target_points[i + 1]
        mid == Coordinate((a.lng + b.lng) \div 2, (a.lat + b.lat) \div 2)
    IN  IF actual_points # <<>>
        THEN SeqMin([j \in 1..Len(actual_points) |->
                        haversine_distance_m(mid, actual_points[j])])
        ELSE 0

\* segment_deviations.sort(key=deviation, reverse=True) is stable: among
\* equal deviations the earlier segment stays first.  The set is the first
\* max(1, m // 2) segments of that order.
segments_to_tighten_best_first(target_points, actual_points) ==
    LET m == Len(target_points) - 1
        dev == [i \in 1..m |-> segment_deviation(target_points, actual_points, i)]
        before(j, i) == dev[j] < dev[i] \/ (dev[j] = dev[i] /\ j < i)
        rank(i) == Cardinality({j \in 1..m : before(j, i)})
    IN  {i \in 1..m : rank(i) < Max2(1, m \div 2)}

segments_to_tighten(target_points, actual_points) ==
    LET m == Len(target_points) - 1
        dev == [i \in 1..m |-> segment_deviation(target_points, actual_points, i)]
        before(j, i) == dev[j] > dev[i] \/ (dev[j] = dev[i] /\ j < i)
        rank(i) == Cardinality({j \in 1..m : before(j, i)})
    IN  {i \in 1..m : rank(i) < Max2(1, m \div 2)}

\* The second loop of _tighten_control_points adding a midpoint to every
\* segment, selected or not.
RECURSIVE TightenFrom_everywhere(_, _, _)
TightenFrom_everywhere(target_points, chosen, i) ==
    IF i > Len(target_points) - 1 THEN <<>>
    ELSE LET a == target_points[i]
             b == target_points[i + 1]
             mid == Coordinate((a.lng + b.lng) \div 2, (a.lat + b.lat) \div 2)
         IN  <<mid>> \o <<b>> \o TightenFrom_everywhere(target_points, chosen, i + 1)

RECURSIVE TightenFrom(_, _, _)
TightenFrom(target_points, chosen, i) ==
    IF i > Len(target_points) - 1 THEN <<>>
    ELSE LET a == target_points[i]
             b == target_points[i + 1]
             mid == Coordinate((a.lng + b.lng) \div 2, (a.lat + b.lat) \div 2)
         IN  (IF i \in chosen THEN <<mid>> ELSE <<>>)
             \o <<b>> \o TightenFrom(target_points, chosen, i + 1)

_tighten_control_points(target_points, actual_points) ==
    IF Len(target_points) < 2 THEN target_points
    ELSE <<target_points[1]>>
         \o TightenFrom(target_points,
                        segments_to_tighten(target_points, actual_points), 1)

WaypointMarker(index, c, instruction) ==
    [index |-> index, lng |-> c.lng, lat |-> c.lat, instruction |-> instruction]

\* angle_change >= 30, > 60, > 150 of _extract_waypoints, for the bearings
\* b1 and b2: cos^2 of 30 and of 150 degrees is 3/4, of 60 degrees 1/4.
angle_change_ge_30(b1, b2) ==
    ~(Dot(b1, b2) > 0 /\ 4 * Dot(b1, b2) * Dot(b1, b2) > 3 * NormSq(b1) * NormSq(b2))
angle_change_gt_60(b1, b2) ==
    Dot(b1, b2) < 0 \/ 4 * Dot(b1, b2) * Dot(b1, b2) < NormSq(b1) * NormSq(b2)
angle_change_gt_150(b1, b2) ==
    Dot(b1, b2) < 0 /\ 4 * Dot(b1, b2) * Dot(b1, b2) > 3 * NormSq(b1) * NormSq(b2)

\* cross = (b2 - b1 + 360) % 360 < 180: b2 is clockwise of b1.
turn_instruction(b1, b2) ==
    IF angle_change_gt_150(b1, b2) THEN "Make a U-turn"
    ELSE IF Cross(b1, b2) < 0
         THEN IF angle_change_gt_60(b1, b2) THEN "Turn right" ELSE "Bear right"
         ELSE IF angle_change_gt_60(b1, b2) THEN "Turn left" ELSE "Bear left"

\* The loop "for i in range(step, len(coordinates) - step, step)"; i is the
\* source's 0-based index.
RECURSIVE TurnsFrom(_, _, _, _)
TurnsFrom(coordinates, i, step, waypoints) ==
    IF i >= Len(coordinates) - step THEN waypoints
    ELSE LET prev == coordinates[i - step + 1]
             curr == coordinates[i + 1]
             next_p == coordinates[Min2(i + step, Len(coordinates) - 1) + 1]
             b1 == _bearing_deg(prev, curr)
             b2 == _bearing_deg(curr, next_p)
         IN  TurnsFrom(coordinates, i + step, step,
                 IF angle_change_ge_30(b1, b2)
                 THEN Append(waypoints,
                             WaypointMarker(Len(waypoints) + 1, curr,
                                            turn_instruction(b1, b2)))
                 ELSE waypoints)

_extract_waypoints(coordinates) ==
    IF Len(coordinates) < 3
    THEN [i \in 1..Len(coordinates) |->
             WaypointMarker(i, coordinates[i], "Waypoint")]
    ELSE LET step == Max2(1, Len(coordinates) \div 50)
             turns == TurnsFrom(coordinates, step, step,
                          <<WaypointMarker(1, coordinates[1], "Start here")>>)
         IN  Append(turns, WaypointMarker(Len(turns) + 1,
                                          coordinates[Len(coordinates)],
                                          "Finish!"))

\* km < 4, km < 8, with km in tenths of a kilometre
_difficulty_for_distance(km) ==
    IF km < 40 THEN "easy" ELSE IF km < 80 THEN "moderate" ELSE "hard"

\* ShapeIdea: estimated_distance_km has Field(gt=0) and difficulty has
\* Field(pattern="^(easy|moderate|hard)$").
ShapeIdea(estimated_distance_km, difficulty, control_points) ==
    IF estimated_distance_km > 0 /\ difficulty \in {"easy", "moderate", "hard"}
    THEN [estimated_distance_km |-> estimated_distance_km,
          difficulty |-> difficulty, control_points |-> control_points]
    ELSE ValidationError

DescribeResponse(shape, similarity_score, routed, waypoints) ==
    [shape |-> shape, similarity_score |-> similarity_score,
     routed_coordinates |-> routed.coordinates,
     distance_km |-> routed.distance_km,
     duration_minutes |-> routed.duration_minutes,
     waypoints |-> waypoints]

\* A routing outcome, distance_km in tenths of a kilometre.
RoutingOutcome(coordinates, distance_km, duration_minutes) ==
    [coordinates |-> coordinates, distance_km |-> distance_km,
     duration_minutes |-> duration_minutes]

\* int(estimate_distance_km(waypoints) / 5 * 60)
estimate_duration(waypoints) == (estimate_distance_km(waypoints) * 60) \div 50

\* The unrouted fallback of _route_waypoints.
unrouted(waypoints) ==
    RoutingOutcome(waypoints, estimate_distance_km(waypoints),
                   estimate_duration(waypoints))

\* chunk_size = 25
CHUNK_SIZE == 25

\* coords[i : i + chunk_size], i the source's 0-based index
chunk_at(coords, i) == SubSeq(coords, i + 1, Min2(i + CHUNK_SIZE, Len(coords)))

\* The first index from i on, in steps of chunk_size - 1, whose chunk has at
\* least 2 points (shorter chunks are skipped), or -1 at the end of the loop.
RECURSIVE next_chunk(_, _)
next_chunk(coords, i) ==
    IF i >= Len(coords) THEN -1
    ELSE IF Len(chunk_at(coords, i)) >= 2 THEN i
    ELSE next_chunk(coords, i + CHUNK_SIZE - 1)

\* What _route_waypoints returns after the Mapbox loop.
mapbox_result(waypoints, all_coords, total_dist, total_dur) ==
    RoutingOutcome(
        IF all_coords # <<>> THEN all_coords ELSE waypoints,
        IF round(total_dist, 100) # 0 THEN round(total_dist, 100)
        ELSE estimate_distance_km(waypoints),
        IF round(total_dur, 60) # 0 THEN round(total_dur, 60)
        ELSE estimate_duration(waypoints))

\* points moved by the vector d
Shifted(points, d) ==
    [i \in 1..Len(points) |->
        Coordinate(points[i].lng + d.lng, points[i].lat + d.lat)]

\* ------------------------------------------------------------------------
\* State
\* ------------------------------------------------------------------------

VARIABLES
    \* process environment, read once at start
    glm_api_key,      \* ShapeValidator._glm_api_key is set (GLM_API_KEY)
    mapbox_token,     \* MAPBOX_ACCESS_TOKEN or VITE_MAPBOX_ACCESS_TOKEN is set
    MAX_RETRIES,      \* int(MAX_GENERATION_RETRIES), 2 by default
    \* one invocation of ShapeGenerator.generate_from_description
    pc,               \* where the invocation stands; "idle": none is running
    control_points,
    mapped,
    routed,           \* the RoutingOutcome of the last _route_waypoints
    routed_coords,
    waypoints,
    validation,
    retries,
    response,         \* the DescribeResponse returned, or NoResult
    calls,            \* the calls the invocation made so far, in order
    best_score,       \* the greatest validation.score of the invocation so
                      \* far, 0 before the first validation
    tighten_args,     \* the arguments of the last _tighten_control_points
                      \* call, or NoCall
    error,            \* the exception that ended the invocation, or NoError
    \* the Mapbox loop of _route_waypoints
    chunk_i, all_coords, total_dist, total_dur,
    \* one call of ShapeValidator.validate or of _validate_algorithmic
    v_pc,             \* "idle", "start", "vision", "fallback", "done"
    v_entry,          \* "validate", "direct" (_validate_algorithmic called)
    v_target,         \* target_points
    v_actual,         \* actual_points
    v_threshold,      \* threshold
    v_reply,          \* what the vision model replied, or NoReply
    v_vision,         \* "none", "ok", "failed": how _validate_with_vision ended
    v_calls,          \* the helpers the algorithmic scorer ran in this call
    v_result,         \* the ValidationResult returned, or NoResult
    \* one call of a function of street_mapper.py or of _resample_curve
    f_pc,             \* "idle", "call", "again" (between two calls), "done"
    f_call,           \* the function and its arguments, or NoCall
    f_out,            \* what the call returned, or NoResult
    \* the asyncio event loop and the invocations it runs as tasks
    loop_owner,       \* the task the loop's thread is executing, or NoTask
    t_pc,             \* where each task stands
    t_retries,        \* retries of each task
    t_replies,        \* what the collaborators reply to each task
    t_frame,          \* the local variables of each task's coroutine frame
    t_response        \* what each task returned, or NoResult

envvars == <<glm_api_key, mapbox_token, MAX_RETRIES>>

gvars == <<pc, control_points, mapped, routed, routed_coords, waypoints,
           validation, retries, response, calls, tighten_args, best_score,
           error>>

rvars == <<chunk_i, all_coords, total_dist, total_dur>>

vvars == <<v_pc, v_entry, v_target, v_actual, v_threshold, v_reply, v_vision,
           v_calls, v_result>>

fvars == <<f_pc, f_call, f_out>>

hvars == <<random_state, s_log>>

lvars == <<loop_owner, t_pc, t_retries, t_replies, t_frame, t_response>>

vars == <<envvars, gvars, rvars, vvars, fvars, hvars, lvars>>

\* The tasks of the event loop: concurrent generate_from_description calls.
Tasks == {1, 2}
NoTask == 0

NoResult == [none |-> TRUE]
NoReply == [kind |-> "none", score |-> 0]
NoError == [raised_in |-> "none", type |-> "none"]
NoCall == [op |-> "none"]
NoReplies == [outline |-> <<>>, shift |-> [lng |-> 0, lat |-> 0],
              judge |-> NoReply]
NoFrame == [control_points |-> <<>>, mapped |-> <<>>, routed_coords |-> <<>>]

\* ------------------------------------------------------------------------
\* ShapeValidator.validate, step by step
\* ------------------------------------------------------------------------

\* Replies of the vision model that the model draws from.
JudgeScores == {-5, 30, 45, 100, 150}

JudgeReplies ==
    [kind : {"import_error", "client_error", "unparseable", "not_object",
             "bad_score", "no_score"}, score : {0}]
    \cup [kind : {"score"}, score : JudgeScores]

\* validate is entered: with a key the vision model is tried first.
ValidateEnter ==
    /\ v_pc = "start"
    /\ v_entry' = "validate"
    /\ v_pc' = IF glm_api_key THEN "vision" ELSE "fallback"
    /\ UNCHANGED <<envvars, fvars, hvars, lvars, gvars, rvars, v_target, v_actual, v_threshold,
                   v_reply, v_vision, v_calls, v_result>>

\* _validate_with_vision returns a result, or raises and validate's
\* "except Exception: pass" falls through to the algorithmic scorer.  In a
\* call made by generate_from_description one failure, client_error, stands
\* for all of them: validate treats every exception alike.
VisionReturn ==
    /\ v_pc = "vision"
    /\ \E reply \in {r \in JudgeReplies :
                        pc = "idle" \/ r.kind \in {"client_error", "score"}} :
         LET r == _validate_with_vision(v_target, v_actual, v_threshold, reply)
         IN  /\ v_reply' = reply
             /\ IF r = Raised
                THEN /\ v_vision' = "failed"
                     /\ v_pc' = "fallback"
                     /\ v_result' = v_result
                ELSE /\ v_vision' = "ok"
                     /\ v_pc' = "done"
                     /\ v_result' = r
    /\ UNCHANGED <<envvars, fvars, hvars, lvars, gvars, rvars, v_entry, v_target, v_actual,
                   v_threshold, v_calls>>

\* return self._validate_algorithmic(target_points, actual_points, threshold)
AlgorithmicFallback ==
    /\ v_pc = "fallback"
    /\ v_result' = _validate_algorithmic(v_target, v_actual, v_threshold)
    /\ v_calls' = algorithmic_calls(v_target, v_actual)
    /\ v_pc' = "done"
    /\ UNCHANGED <<envvars, fvars, hvars, lvars, gvars, rvars, v_entry, v_target, v_actual,
                   v_threshold, v_reply, v_vision>>

\* _validate_algorithmic called directly, as the tests do.
DirectAlgorithmic ==
    /\ pc = "idle"
    /\ v_pc = "start"
    /\ v_entry' = "direct"
    /\ v_result' = _validate_algorithmic(v_target, v_actual, v_threshold)
    /\ v_calls' = algorithmic_calls(v_target, v_actual)
    /\ v_pc' = "done"
    /\ UNCHANGED <<envvars, fvars, hvars, lvars, gvars, rvars, v_target, v_actual, v_threshold,
                   v_reply, v_vision>>

\* ------------------------------------------------------------------------
\* ShapeGenerator.generate_from_description, step by step
\* (from "Step 2" on: the neighbourhood is resolved, hood.bbox is HoodBbox)
\* ------------------------------------------------------------------------

HoodBbox == BoundingBox(0, 0, 250, 200)

\* Outlines _generate_control_points may return: at least 3 points from the
\* language model (any points, also all the same), or a template.
SeedOutlines ==
    { <<Coordinate(100, 40), Coordinate(180, 160), Coordinate(20, 160),
        Coordinate(100, 40)>>,
      <<Coordinate(40, 40), Coordinate(40, 160), Coordinate(200, 160)>>,
      <<Coordinate(100, 100), Coordinate(100, 100), Coordinate(100, 100)>> }

\* How far a routed geometry may lie from the waypoints it was asked for.
RouteShifts == {Coordinate(0, 0), Coordinate(120, 0)}

\* Routed geometries for the given waypoints.
RouteGeometries(points) == {Shifted(points, d) : d \in RouteShifts}

\* Replies of the SvelteKit proxy to POST /api/route:
\*   exception     the request raises, or resp.json() does
\*   non_200       status_code != 200
\*   unsuccessful  200 without a true "success"
\*   missing_key   200, success, and a key of the reply is missing (KeyError)
\*   ok            200, success, with coordinates, distance_km, duration_minutes
ProxyFailures == {"exception", "non_200", "unsuccessful", "missing_key"}

ProxyRoutes(points) ==
    {RoutingOutcome(g, Max2(1, estimate_distance_km(g)),
                    Max2(1, estimate_duration(g)))
       : g \in RouteGeometries(points)}
    \cup {RoutingOutcome(<<>>, 0, 0)}

\* Replies of the Mapbox Directions API for one chunk:
\*   httpx.HTTPError  client.get raises (network error, timeout), or
\*                    resp.json() does
\*   KeyError         code "Ok" with routes, but the route lacks geometry,
\*                    distance or duration
\*   not_ok     code is not "Ok", or there are no routes
\*   ok         a route: geometry, distance in m, duration in s
MapboxFailures == {"httpx.HTTPError", "KeyError"}

MapboxRoutes(chunk) ==
    {[coordinates |-> g, distance |-> PathLength(g) \div DIST_SCALE,
      duration |-> PathLength(g) \div DIST_SCALE]
       : g \in RouteGeometries(chunk)}

\* Step 2: control_points = await self._generate_control_points(...)
GenerateControlPoints ==
    /\ pc = "generate"
    /\ control_points' \in SeedOutlines
    /\ calls' = Append(calls, "generate")
    /\ pc' = "map"
    /\ UNCHANGED <<envvars, fvars, hvars, lvars, tighten_args, best_score,
                   mapped, routed, routed_coords, waypoints,
                   validation, retries, response, error, rvars, vvars>>

\* Step 3, and the map_to_streets of a retry
MapToStreets ==
    /\ pc = "map"
    /\ mapped' = map_to_streets(control_points, HoodBbox)
    /\ calls' = Append(calls, "map")
    /\ pc' = "route"
    /\ UNCHANGED <<envvars, fvars, hvars, lvars, tighten_args, best_score,
                   control_points, routed, routed_coords, waypoints,
                   validation, retries, response, error, rvars, vvars>>

\* _route_waypoints returns result: routed and routed_coords are set; in
\* the first round the waypoints are extracted before validating (Step 5).
RouteReturns(result) ==
    /\ routed' = result
    /\ routed_coords' = result.coordinates
    /\ waypoints' = IF retries = 0 THEN _extract_waypoints(result.coordinates)
                    ELSE waypoints
    /\ pc' = "validate"

\* _route_waypoints up to its first await: the proxy replies.  On a failure
\* without a token the unrouted fallback is returned; with a token the
\* Mapbox loop starts.
RouteProxy ==
    /\ pc = "route"
    /\ calls' = Append(calls, "route")
    /\ \/ /\ \E r \in ProxyRoutes(mapped) : RouteReturns(r)
          /\ UNCHANGED rvars
       \/ /\ \E f \in ProxyFailures : TRUE
          /\ IF ~mapbox_token
             THEN RouteReturns(unrouted(mapped)) /\ UNCHANGED rvars
             ELSE IF next_chunk(mapped, 0) = -1
             THEN RouteReturns(mapbox_result(mapped, <<>>, 0, 0))
                  /\ UNCHANGED rvars
             ELSE /\ pc' = "mapbox"
                  /\ chunk_i' = next_chunk(mapped, 0)
                  /\ all_coords' = <<>>
                  /\ total_dist' = 0
                  /\ total_dur' = 0
                  /\ UNCHANGED <<routed, routed_coords, waypoints>>
    /\ UNCHANGED <<envvars, fvars, hvars, lvars, tighten_args, best_score,
                   control_points, mapped, validation, retries,
                   response, error, vvars>>

\* The loop goes on after the chunk at chunk_i: to the next chunk, or to the
\* return.
MapboxContinue(coords2, dist2, dur2) ==
    LET nxt == next_chunk(mapped, chunk_i + CHUNK_SIZE - 1)
    IN  IF nxt = -1
        THEN /\ RouteReturns(mapbox_result(mapped, coords2, dist2, dur2))
             /\ UNCHANGED rvars
        ELSE /\ chunk_i' = nxt
             /\ all_coords' = coords2
             /\ total_dist' = dist2
             /\ total_dur' = dur2
             /\ UNCHANGED <<pc, routed, routed_coords, waypoints>>

\* One "resp = await client.get(url); data = resp.json()" of the Mapbox loop,
\* which no try guards: an exception leaves _route_waypoints and
\* generate_from_description.
RouteMapbox ==
    /\ pc = "mapbox"
    /\ \/ /\ \E f \in MapboxFailures :
                error' = [raised_in |-> "_route_waypoints", type |-> f]
          /\ pc' = "raised"
          /\ UNCHANGED <<routed, routed_coords, waypoints, rvars>>
       \/ \* not_ok: continue
          /\ MapboxContinue(all_coords, total_dist, total_dur)
          /\ error' = error
       \/ /\ \E r \in MapboxRoutes(chunk_at(mapped, chunk_i)) :
               MapboxContinue(
                   IF all_coords # <<>>
                   THEN all_coords \o Tail(r.coordinates)
                   ELSE r.coordinates,
                   total_dist + r.distance, total_dur + r.duration)
          /\ error' = error
    /\ UNCHANGED <<envvars, fvars, hvars, lvars, tighten_args, best_score,
                   control_points, mapped, validation, retries,
                   response, calls, vvars>>

\* validation = await self.validator.validate(target_points=mapped,
\*     actual_points=routed_coords), threshold left at its default
CallValidate ==
    /\ pc = "validate"
    /\ v_pc' = "start"
    /\ v_entry' = "none"
    /\ v_target' = mapped
    /\ v_actual' = routed_coords
    /\ v_threshold' = VALIDATION_THRESHOLD
    /\ v_reply' = NoReply
    /\ v_vision' = "none"
    /\ v_calls' = <<>>
    /\ v_result' = NoResult
    /\ pc' = "validating"
    /\ UNCHANGED <<envvars, fvars, hvars, lvars, tighten_args, best_score,
                   control_points, mapped, routed, routed_coords,
                   waypoints, validation, retries, response, calls, error,
                   rvars>>

\* validate returns and the validation of the first round is kept in a
\* retry round, "validation = await self.validator.validate(...)" of the loop
\* body assigning nothing.
ValidateReturn_first_validation ==
    /\ pc = "validating"
    /\ v_pc = "done"
    /\ validation' = IF retries = 0 THEN v_result ELSE validation
    /\ calls' = Append(calls, IF v_result.passed THEN "validate_pass"
                              ELSE "validate_fail")
    /\ waypoints' = IF retries > 0 THEN _extract_waypoints(routed.coordinates)
                    ELSE waypoints
    /\ best_score' = Max2(best_score, v_result.score)
    /\ v_pc' = "idle"
    /\ pc' = "loop"
    /\ UNCHANGED <<envvars, fvars, hvars, lvars, tighten_args,
                   control_points, mapped, routed, routed_coords,
                   retries, response, error, rvars, v_entry, v_target,
                   v_actual, v_threshold, v_reply, v_vision, v_calls,
                   v_result>>

\* validate returns and the waypoints of the first round are kept in a
\* retry round, "waypoints = self._extract_waypoints(...)" left out of the
\* loop body.
ValidateReturn_first_waypoints ==
    /\ pc = "validating"
    /\ v_pc = "done"
    /\ validation' = v_result
    /\ calls' = Append(calls, IF v_result.passed THEN "validate_pass"
                              ELSE "validate_fail")
    /\ waypoints' = waypoints
    /\ best_score' = Max2(best_score, v_result.score)
    /\ v_pc' = "idle"
    /\ pc' = "loop"
    /\ UNCHANGED <<envvars, fvars, hvars, lvars, tighten_args,
                   control_points, mapped, routed, routed_coords,
                   retries, response, error, rvars, v_entry, v_target,
                   v_actual, v_threshold, v_reply, v_vision, v_calls,
                   v_result>>

\* validate returns; in a retry round the waypoints are extracted after it.
ValidateReturn ==
    /\ pc = "validating"
    /\ v_pc = "done"
    /\ validation' = v_result
    /\ calls' = Append(calls, IF v_result.passed THEN "validate_pass"
                              ELSE "validate_fail")
    /\ waypoints' = IF retries > 0 THEN _extract_waypoints(routed.coordinates)
                    ELSE waypoints
    /\ best_score' = Max2(best_score, v_result.score)
    /\ v_pc' = "idle"
    /\ pc' = "loop"
    /\ UNCHANGED <<envvars, fvars, hvars, lvars, tighten_args,
                   control_points, mapped, routed, routed_coords,
                   retries, response, error, rvars, v_entry, v_target,
                   v_actual, v_threshold, v_reply, v_vision, v_calls,
                   v_result>>

\* while not validation.passed and retries < MAX_RETRIES: retries += 1;
\* control_points = self._tighten_control_points(control_points, routed_coords)
\* The retry step with the loop condition "retries < MAX_RETRIES" alone.
Tighten_after_pass ==
    /\ pc = "loop"
    /\ retries < MAX_RETRIES
    /\ retries' = retries + 1
    /\ control_points' = _tighten_control_points(control_points, routed_coords)
    /\ tighten_args' = [control_points |-> control_points,
                        routed_coords |-> routed_coords]
    /\ calls' = Append(calls, "tighten")
    /\ pc' = "map"
    /\ UNCHANGED <<envvars, fvars, hvars, lvars, best_score,
                   mapped, routed, routed_coords, waypoints,
                   validation, response, error, rvars, vvars>>

\* The retry step tightening against the route of the round before the
\* last one, where there is one.
Tighten_earlier_route ==
    /\ pc = "loop"
    /\ ~validation.passed /\ retries < MAX_RETRIES
    /\ retries' = retries + 1
    /\ LET earlier == IF tighten_args = NoCall THEN routed_coords
                      ELSE tighten_args.routed_coords
       IN  /\ control_points' = _tighten_control_points(control_points, earlier)
           /\ tighten_args' = [control_points |-> control_points,
                               routed_coords |-> earlier]
    /\ calls' = Append(calls, "tighten")
    /\ pc' = "map"
    /\ UNCHANGED <<envvars, fvars, hvars, lvars, best_score,
                   mapped, routed, routed_coords, waypoints,
                   validation, response, error, rvars, vvars>>

Tighten ==
    /\ pc = "loop"
    /\ ~validation.passed /\ retries < MAX_RETRIES
    /\ retries' = retries + 1
    /\ control_points' = _tighten_control_points(control_points, routed_coords)
    /\ tighten_args' = [control_points |-> control_points,
                        routed_coords |-> routed_coords]
    /\ calls' = Append(calls, "tighten")
    /\ pc' = "map"
    /\ UNCHANGED <<envvars, fvars, hvars, lvars, best_score,
                   mapped, routed, routed_coords, waypoints,
                   validation, response, error, rvars, vvars>>

\* The loop is left: ShapeIdea(...) and DescribeResponse(...) are built and
\* returned, or the ShapeIdea constructor raises.
BuildResponse ==
    /\ pc = "loop"
    /\ ~(~validation.passed /\ retries < MAX_RETRIES)
    /\ LET shape == ShapeIdea(routed.distance_km,
                              _difficulty_for_distance(routed.distance_km),
                              control_points)
       IN  IF shape = ValidationError
           THEN /\ pc' = "raised"
                /\ error' = [raised_in |-> "generate_from_description",
                              type |-> "ValidationError"]
                /\ response' = response
           ELSE /\ pc' = "done"
                /\ error' = error
                /\ response' = DescribeResponse(shape, validation.score,
                                                routed, waypoints)
    /\ UNCHANGED <<envvars, fvars, hvars, lvars, tighten_args, best_score,
                   control_points, mapped, routed, routed_coords,
                   waypoints, validation, retries, calls, rvars, vvars>>

\* Bound of the retry budgets tried
MaxRetryBudget == 2

Init ==
    /\ glm_api_key \in BOOLEAN
    /\ mapbox_token \in BOOLEAN
    /\ MAX_RETRIES \in 0..MaxRetryBudget
    /\ pc = "generate"
    /\ control_points = <<>>
    /\ mapped = <<>>
    /\ routed = NoResult
    /\ routed_coords = <<>>
    /\ waypoints = <<>>
    /\ validation = NoResult
    /\ retries = 0
    /\ response = NoResult
    /\ calls = <<>>
    /\ tighten_args = NoCall
    /\ best_score = 0
    /\ error = NoError
    /\ chunk_i = 0
    /\ all_coords = <<>>
    /\ total_dist = 0
    /\ total_dur = 0
    /\ v_pc = "idle"
    /\ v_entry = "none"
    /\ v_target = <<>>
    /\ v_actual = <<>>
    /\ v_threshold = VALIDATION_THRESHOLD
    /\ v_reply = NoReply
    /\ v_vision = "none"
    /\ v_calls = <<>>
    /\ v_result = NoResult
    /\ f_pc = "idle"
    /\ f_call = NoCall
    /\ f_out = NoResult
    /\ random_state = 0
    /\ s_log = <<>>
    /\ loop_owner = NoTask
    /\ t_pc = [t \in Tasks |-> "idle"]
    /\ t_retries = [t \in Tasks |-> 0]
    /\ t_replies = [t \in Tasks |-> NoReplies]
    /\ t_frame = [t \in Tasks |-> NoFrame]
    /\ t_response = [t \in Tasks |-> NoResult]

Next ==
    \/ GenerateControlPoints
    \/ MapToStreets
    \/ RouteProxy
    \/ RouteMapbox
    \/ CallValidate
    \/ ValidateEnter
    \/ VisionReturn
    \/ AlgorithmicFallback
    \/ ValidateReturn
    \/ Tighten
    \/ BuildResponse

Spec == Init /\ [][Next]_vars

\* ------------------------------------------------------------------------
\* The validator on its own: every call over bounded inputs
\* ------------------------------------------------------------------------

\* Bounds of the inputs
MaxTargetLen == 2
MaxActualLen == 2

TargetPts == {Coordinate(0, 0), Coordinate(40, 0), Coordinate(40, 30)}
ActualPts == {Coordinate(300, 0), Coordinate(300, 30)}
Shifts == {Coordinate(0, 0), Coordinate(3, 4), Coordinate(60, 0)}
Thresholds == {0, VALIDATION_THRESHOLD, 90}

SeqsUpTo(S, n) == UNION {[1..k -> S] : k \in 0..n}

TargetPolylines == SeqsUpTo(TargetPts, MaxTargetLen)

\* The routed polylines tried against a target: the target itself, the
\* target moved, and every short polyline over ActualPts.
ActualPolylines(target) ==
    {Shifted(target, d) : d \in Shifts} \cup SeqsUpTo(ActualPts, MaxActualLen)

InitValidate ==
    /\ glm_api_key \in BOOLEAN
    /\ mapbox_token = FALSE
    /\ MAX_RETRIES = 2
    /\ pc = "idle"
    /\ control_points = <<>>
    /\ mapped = <<>>
    /\ routed = NoResult
    /\ routed_coords = <<>>
    /\ waypoints = <<>>
    /\ validation = NoResult
    /\ retries = 0
    /\ response = NoResult
    /\ calls = <<>>
    /\ tighten_args = NoCall
    /\ best_score = 0
    /\ error = NoError
    /\ chunk_i = 0
    /\ all_coords = <<>>
    /\ total_dist = 0
    /\ total_dur = 0
    /\ v_pc = "start"
    /\ v_entry = "none"
    /\ v_target \in TargetPolylines
    /\ v_actual \in ActualPolylines(v_target)
    /\ v_threshold \in Thresholds
    /\ v_reply = NoReply
    /\ v_vision = "none"
    /\ v_calls = <<>>
    /\ v_result = NoResult
    /\ f_pc = "idle"
    /\ f_call = NoCall
    /\ f_out = NoResult
    /\ random_state = 0
    /\ s_log = <<>>
    /\ loop_owner = NoTask
    /\ t_pc = [t \in Tasks |-> "idle"]
    /\ t_retries = [t \in Tasks |-> 0]
    /\ t_replies = [t \in Tasks |-> NoReplies]
    /\ t_frame = [t \in Tasks |-> NoFrame]
    /\ t_response = [t \in Tasks |-> NoResult]

NextValidate ==
    \/ ValidateEnter
    \/ VisionReturn
    \/ AlgorithmicFallback
    \/ DirectAlgorithmic

SpecValidate == InitValidate /\ [][NextValidate]_vars


\* ------------------------------------------------------------------------
\* The functions of street_mapper.py and _resample_curve, called on their
\* own
\* ------------------------------------------------------------------------

\* Bound of the lengths of the polylines passed to the functions
MaxPolylineLen == 3

\* scale_to_bbox: outlines in the unit the caller likes, and two target
\* boxes with min < max on both axes.
ScalePts == {Coordinate(0, 0), Coordinate(10, 0), Coordinate(10, 30),
             Coordinate(7, 3)}
TargetBboxes == {HoodBbox, BoundingBox(10, 20, 110, 60)}

\* densify: corners 60 m apart on each axis, and bounds of 30, 60, 80 m.
DensifyPts == {Coordinate(0, 0), Coordinate(60, 0), Coordinate(120, 60),
               Coordinate(0, 120)}
SegmentBounds == {30, 60, MAX_SEGMENT_M}

\* deduplicate: points a few metres apart, on a line and around a corner.
DedupPts == {Coordinate(0, 0), Coordinate(5, 0), Coordinate(10, 0),
             Coordinate(5, 5), Coordinate(20, 0)}

\* map_to_streets: control points of outlines with long and short sides.
ControlPts == {Coordinate(0, 0), Coordinate(5, 0), Coordinate(100, 0),
               Coordinate(100, 5), Coordinate(100, 10), Coordinate(50, 80)}

\* _resample_curve: polylines of none, one and more points, and n >= 2.
ResamplePts == {Coordinate(0, 0), Coordinate(30, 0), Coordinate(30, 40)}
SampleCounts == {2, 3, N_SAMPLES}

Call(op, points, bbox, arg) ==
    [op |-> op, points |-> points, bbox |-> bbox, arg |-> arg]

MapperCalls ==
    {Call("scale_to_bbox", pts, b, 0) :
        pts \in SeqsUpTo(ScalePts, MaxPolylineLen), b \in TargetBboxes}
    \cup {Call("densify", pts, HoodBbox, m) :
        pts \in SeqsUpTo(DensifyPts, MaxPolylineLen), m \in SegmentBounds}
    \cup {Call("deduplicate", pts, HoodBbox, MIN_DISTANCE_M) :
        pts \in SeqsUpTo(DedupPts, MaxPolylineLen)}
    \cup {Call("map_to_streets", pts, HoodBbox, 0) :
        pts \in SeqsUpTo(ControlPts, MaxPolylineLen)}
    \cup {Call("_resample_curve", pts, HoodBbox, n) :
        pts \in SeqsUpTo(ResamplePts, MaxPolylineLen), n \in SampleCounts}

\* _tighten_control_points and _ordered_sampling_score: a target outline
\* and the points of a route.  The long outlines have 4, 5 and 6 segments.
TightenPts == {Coordinate(0, 0), Coordinate(40, 0), Coordinate(40, 40),
               Coordinate(0, 40)}
LongOutlines ==
    {<<Coordinate(0, 0), Coordinate(40, 0), Coordinate(40, 40),
       Coordinate(0, 40), Coordinate(0, 0)>>,
     <<Coordinate(0, 0), Coordinate(20, 0), Coordinate(40, 0),
       Coordinate(40, 40), Coordinate(0, 40), Coordinate(0, 0)>>,
     <<Coordinate(0, 0), Coordinate(20, 0), Coordinate(40, 0),
       Coordinate(40, 20), Coordinate(40, 40), Coordinate(0, 40),
       Coordinate(0, 0)>>}
RoutedPts == {Coordinate(0, 0), Coordinate(40, 0), Coordinate(20, 30)}
MaxRoutedLen == 2

PairCall(op, target_points, actual_points) ==
    [op |-> op, points |-> target_points, actual_points |-> actual_points]

PairCalls ==
    {PairCall(op, t, a) :
        op \in {"_tighten_control_points", "_ordered_sampling_score"},
        t \in SeqsUpTo(TightenPts, MaxPolylineLen) \cup LongOutlines,
        a \in SeqsUpTo(RoutedPts, MaxRoutedLen)}

Returns(out) ==
    /\ f_pc = "call"
    /\ f_out' = out
    /\ f_pc' = "done"
    /\ UNCHANGED <<envvars, gvars, rvars, vvars, hvars, lvars, f_call>>

CallScaleToBbox ==
    /\ f_call.op = "scale_to_bbox"
    /\ Returns(scale_to_bbox(f_call.points, f_call.bbox))

CallDensify ==
    /\ f_call.op = "densify"
    /\ Returns(densify(f_call.points, f_call.arg * DIST_SCALE))

CallDeduplicate ==
    /\ f_call.op = "deduplicate"
    /\ Returns(deduplicate(f_call.points, f_call.arg * DIST_SCALE))

CallMapToStreets ==
    /\ f_call.op = "map_to_streets"
    /\ Returns(map_to_streets(f_call.points, f_call.bbox))

CallResampleCurve ==
    /\ f_call.op = "_resample_curve"
    /\ Returns(_resample_curve(f_call.points, f_call.arg))

\* ------------------------------------------------------------------------
\* services/shape_generator.py: generate_for_neighborhood (Mode A)
\* ------------------------------------------------------------------------

\* template_names of _generate_with_templates
template_names == <<"heart", "star", "triangle", "circle", "arrow", "square">>

\* get_parametric_shape(name, center, scale): the corner points of the
\* template's outline about the centre, in metres; the source puts
\* interpolated points between them.
get_parametric_shape(shape_name, center, scale) ==
    LET r == (45 * scale) \div 100
        At(dx, dy) == Coordinate(center.lng + dx, center.lat + dy)
    IN  CASE shape_name = "triangle" ->
               <<At(0, r), At(-((87 * r) \div 100), -(r \div 2)),
                 At((87 * r) \div 100, -(r \div 2)), At(0, r)>>
          [] shape_name = "square" ->
               LET q == (40 * scale) \div 100
               IN  <<At(-q, q), At(q, q), At(q, -q), At(-q, -q), At(-q, q)>>
          [] shape_name = "arrow" ->
               <<At(-r, 0), At((3 * r) \div 10, 0),
                 At((3 * r) \div 10, (4 * r) \div 10), At(r, 0),
                 At((3 * r) \div 10, -((4 * r) \div 10)),
                 At((3 * r) \div 10, 0), At(-r, 0)>>
          [] shape_name = "star" ->
               LET o == scale \div 2
                   n == (38 * o) \div 100
               IN  <<At(0, o), At(-((59 * n) \div 100), (81 * n) \div 100),
                     At(-((95 * o) \div 100), (31 * o) \div 100),
                     At(-((95 * n) \div 100), -((31 * n) \div 100)),
                     At(-((59 * o) \div 100), -((81 * o) \div 100)),
                     At(0, -n),
                     At((59 * o) \div 100, -((81 * o) \div 100)),
                     At((95 * n) \div 100, -((31 * n) \div 100)),
                     At((95 * o) \div 100, (31 * o) \div 100),
                     At((59 * n) \div 100, (81 * n) \div 100), At(0, o)>>
          [] shape_name = "heart" ->
               LET h == scale \div 2
               IN  <<At(0, (5 * h) \div 17), At((10 * h) \div 17, (12 * h) \div 17),
                     At((16 * h) \div 17, (4 * h) \div 17), At(0, -h),
                     At(-((16 * h) \div 17), (4 * h) \div 17),
                     At(-((10 * h) \div 17), (12 * h) \div 17),
                     At(0, (5 * h) \div 17)>>
          [] OTHER ->
               <<At(r, 0), At(0, r), At(-r, 0), At(0, -r), At(r, 0)>>

\* _generate_with_templates(hood, count)
_generate_with_templates(bbox, count) ==
    LET center == Coordinate((bbox.min_lng + bbox.max_lng) \div 2,
                             (bbox.min_lat + bbox.max_lat) \div 2)
        scale == (7 * Min2(width_deg(bbox), height_deg(bbox))) \div 10
        names == SubSeq(template_names, 1, Min2(count, Len(template_names)))
    IN  [i \in 1..Len(names) |->
            LET mapped_points ==
                    map_to_streets(get_parametric_shape(names[i], center, scale),
                                   bbox)
            IN  ShapeIdea(estimate_distance_km(mapped_points), "moderate",
                          mapped_points)]

\* The loop of _generate_with_llm over raw_ideas[:count]: the ideas, or
\* ValidationError when a ShapeIdea constructor raises.
RECURSIVE IdeasFrom(_, _, _)
IdeasFrom(raw_ideas, bbox, ideas) ==
    IF raw_ideas = <<>> THEN [raised |-> FALSE, ideas |-> ideas]
    ELSE LET raw == Head(raw_ideas)
             points == raw.control_points
             mapped_points == map_to_streets(points, bbox)
             idea == ShapeIdea(estimate_distance_km(mapped_points),
                               raw.difficulty, mapped_points)
         IN  IF Len(points) < 3
             THEN IdeasFrom(Tail(raw_ideas), bbox, ideas)
             ELSE IF idea = ValidationError
             THEN [raised |-> TRUE, ideas |-> <<>>]
             ELSE IdeasFrom(Tail(raw_ideas), bbox, Append(ideas, idea))

\* _generate_with_llm(hood, count), given what the language model's reply
\* comes to: the predictor or parse_ideas_json raises, or raw_ideas is
\* parsed.
_generate_with_llm(bbox, count, reply) ==
    IF reply.raised THEN [raised |-> TRUE, ideas |-> <<>>]
    ELSE IdeasFrom(SubSeq(reply.raw_ideas, 1, Min2(count, Len(reply.raw_ideas))),
                   bbox, <<>>)

\* The neighborhoods get_by_name knows, with their bounding boxes.
Neighborhoods == {"Vinohrady"}

\* generate_for_neighborhood(neighborhood, count) on an instance whose
\* _generate_ideas is set (lm) or None.
generate_for_neighborhood(neighborhood, count, lm, reply) ==
    IF neighborhood \notin Neighborhoods
    THEN [error |-> "ValueError", ideas |-> <<>>]
    ELSE LET llm == IF lm THEN _generate_with_llm(HoodBbox, count, reply)
                    ELSE [raised |-> TRUE, ideas |-> <<>>]
             ideas == IF llm.raised THEN <<>> ELSE llm.ideas
         IN  [error |-> "none",
              ideas |-> IF ideas = <<>>
                        THEN _generate_with_templates(HoodBbox, count)
                        ELSE ideas]

\* Raw ideas a reply may hold: a usable outline, an outline of two points,
\* an idea whose difficulty ShapeIdea rejects.
RawIdeas ==
    {[control_points |-> <<Coordinate(100, 40), Coordinate(180, 160),
                           Coordinate(20, 160)>>, difficulty |-> "moderate"],
     [control_points |-> <<Coordinate(100, 40), Coordinate(180, 160)>>,
      difficulty |-> "easy"],
     [control_points |-> <<Coordinate(40, 40), Coordinate(40, 160),
                           Coordinate(200, 160)>>, difficulty |-> "extreme"]}

\* Bound of the raw ideas of one reply
MaxRawIdeas == 3

\* GenerateRequest: count has Field(default=3, ge=1, le=6).
IdeaCalls ==
    {[op |-> "generate_for_neighborhood", neighborhood |-> n, count |-> c,
      lm |-> lm, reply |-> reply] :
        n \in Neighborhoods \cup {"NonExistent"}, c \in 1..6,
        lm \in BOOLEAN,
        reply \in [raised : {TRUE}, raw_ideas : {<<>>}]
                  \cup [raised : {FALSE},
                        raw_ideas : SeqsUpTo(RawIdeas, MaxRawIdeas)]}

CallGenerateForNeighborhood ==
    /\ f_call.op = "generate_for_neighborhood"
    /\ Returns(generate_for_neighborhood(f_call.neighborhood, f_call.count,
                                         f_call.lm, f_call.reply))

\* _validate_algorithmic on a target and on two translations of it along
\* one direction, the second farther than the first.
ShiftTargets ==
    {[i \in 1..11 |-> Coordinate(10 * (i - 1), 0)],
     [i \in 1..11 |-> Coordinate(IF i = 1 THEN 0 ELSE IF i = 11 THEN 40 ELSE 20,
                                 0)],
     <<Coordinate(0, 0), Coordinate(40, 0), Coordinate(40, 40),
       Coordinate(0, 40), Coordinate(0, 0)>>,
     <<Coordinate(0, 0), Coordinate(40, 0), Coordinate(40, 30)>>}

\* A direction as metres east and north per step, and the steps of the
\* first and of the second translation.
ShiftCalls ==
    {[op |-> "_validate_algorithmic", points |-> t, direction |-> d,
      amounts |-> <<k1, k2>>] :
        t \in ShiftTargets,
        d \in {Coordinate(1, 0), Coordinate(0, 1), Coordinate(1, 1)},
        k1 \in {0, 5, 9, 10, 20}, k2 \in {0, 5, 9, 10, 20}}

\* The next call of _validate_algorithmic of the two: the results are
\* kept in call order.
CallValidateShifted ==
    /\ f_pc \in {"call", "again"}
    /\ f_call.op = "_validate_algorithmic"
    /\ LET results == IF f_pc = "call" THEN <<>> ELSE f_out
           k == f_call.amounts[Len(results) + 1]
           actual == Shifted(f_call.points,
                             Coordinate(k * f_call.direction.lng,
                                        k * f_call.direction.lat))
       IN  /\ f_out' = Append(results,
                              _validate_algorithmic(f_call.points, actual,
                                                    VALIDATION_THRESHOLD))
           /\ f_pc' = IF Len(results) + 1 = Len(f_call.amounts)
                      THEN "done" ELSE "again"
    /\ UNCHANGED <<envvars, gvars, rvars, vvars, hvars, lvars, f_call>>

CallTightenControlPoints ==
    /\ f_call.op = "_tighten_control_points"
    /\ Returns(_tighten_control_points(f_call.points, f_call.actual_points))

\* _ordered_sampling_score; dists, the list the mean is taken of, is kept
\* next to the score returned.
CallOrderedSamplingScore ==
    /\ f_call.op = "_ordered_sampling_score"
    /\ Returns([score |-> _ordered_sampling_score(f_call.points,
                                                  f_call.actual_points,
                                                  N_SAMPLES),
                dists |-> ordered_sampling_dists(f_call.points,
                                                 f_call.actual_points,
                                                 N_SAMPLES)])

InitMapper ==
    /\ glm_api_key = FALSE
    /\ mapbox_token = FALSE
    /\ MAX_RETRIES = 2
    /\ pc = "idle"
    /\ control_points = <<>>
    /\ mapped = <<>>
    /\ routed = NoResult
    /\ routed_coords = <<>>
    /\ waypoints = <<>>
    /\ validation = NoResult
    /\ retries = 0
    /\ response = NoResult
    /\ calls = <<>>
    /\ tighten_args = NoCall
    /\ best_score = 0
    /\ error = NoError
    /\ chunk_i = 0
    /\ all_coords = <<>>
    /\ total_dist = 0
    /\ total_dur = 0
    /\ v_pc = "idle"
    /\ v_entry = "none"
    /\ v_target = <<>>
    /\ v_actual = <<>>
    /\ v_threshold = VALIDATION_THRESHOLD
    /\ v_reply = NoReply
    /\ v_vision = "none"
    /\ v_calls = <<>>
    /\ v_result = NoResult
    /\ f_pc = "call"
    /\ f_call \in MapperCalls \cup PairCalls \cup ShiftCalls \cup IdeaCalls
    /\ f_out = NoResult
    /\ random_state = 0
    /\ s_log = <<>>
    /\ loop_owner = NoTask
    /\ t_pc = [t \in Tasks |-> "idle"]
    /\ t_retries = [t \in Tasks |-> 0]
    /\ t_replies = [t \in Tasks |-> NoReplies]
    /\ t_frame = [t \in Tasks |-> NoFrame]
    /\ t_response = [t \in Tasks |-> NoResult]

NextMapper ==
    \/ CallScaleToBbox
    \/ CallDensify
    \/ CallDeduplicate
    \/ CallMapToStreets
    \/ CallResampleCurve
    \/ CallTightenControlPoints
    \/ CallOrderedSamplingScore
    \/ CallValidateShifted
    \/ CallGenerateForNeighborhood

SpecMapper == InitMapper /\ [][NextMapper]_vars

\* ------------------------------------------------------------------------
\* _validate_algorithmic called repeatedly in one process
\* ------------------------------------------------------------------------

MaxScorerCalls == 3
MaxRandomDraws == 2

\* A target of more than 60 points, for which _compute_diameter samples:
\* two far ends two places apart in the list, the rest in between.
LargeTarget ==
    <<Coordinate(0, 0), Coordinate(20, 0), Coordinate(40, 0)>>
    \o [i \in 1..58 |-> Coordinate(20, i % 3)]

ScorerInputs ==
    [target_points : {LargeTarget,
                      <<Coordinate(0, 0), Coordinate(40, 0), Coordinate(40, 30)>>},
     actual_points : {<<Coordinate(0, 5), Coordinate(40, 5)>>,
                      <<Coordinate(0, 0), Coordinate(40, 30)>>},
     threshold : {VALIDATION_THRESHOLD}]

\* One more call of _validate_algorithmic, on any of the inputs.
CallValidateAlgorithmic ==
    /\ Len(s_log) < MaxScorerCalls
    /\ \E in \in ScorerInputs :
          s_log' = Append(s_log,
                          [input |-> in,
                           result |-> _validate_algorithmic(in.target_points,
                                                            in.actual_points,
                                                            in.threshold)])
    /\ UNCHANGED <<envvars, gvars, rvars, vvars, fvars, lvars, random_state>>

\* Some other code of the process draws from the module-level generator.
OtherRandomUse ==
    /\ random_state < MaxRandomDraws
    /\ random_state' = random_state + 1
    /\ UNCHANGED <<envvars, gvars, rvars, vvars, fvars, lvars, s_log>>

InitRepeat ==
    /\ glm_api_key = FALSE
    /\ mapbox_token = FALSE
    /\ MAX_RETRIES = 2
    /\ pc = "idle"
    /\ control_points = <<>>
    /\ mapped = <<>>
    /\ routed = NoResult
    /\ routed_coords = <<>>
    /\ waypoints = <<>>
    /\ validation = NoResult
    /\ retries = 0
    /\ response = NoResult
    /\ calls = <<>>
    /\ tighten_args = NoCall
    /\ best_score = 0
    /\ error = NoError
    /\ chunk_i = 0
    /\ all_coords = <<>>
    /\ total_dist = 0
    /\ total_dur = 0
    /\ v_pc = "idle"
    /\ v_entry = "none"
    /\ v_target = <<>>
    /\ v_actual = <<>>
    /\ v_threshold = VALIDATION_THRESHOLD
    /\ v_reply = NoReply
    /\ v_vision = "none"
    /\ v_calls = <<>>
    /\ v_result = NoResult
    /\ f_pc = "idle"
    /\ f_call = NoCall
    /\ f_out = NoResult
    /\ random_state = 0
    /\ s_log = <<>>
    /\ loop_owner = NoTask
    /\ t_pc = [t \in Tasks |-> "idle"]
    /\ t_retries = [t \in Tasks |-> 0]
    /\ t_replies = [t \in Tasks |-> NoReplies]
    /\ t_frame = [t \in Tasks |-> NoFrame]
    /\ t_response = [t \in Tasks |-> NoResult]

NextRepeat == CallValidateAlgorithmic \/ OtherRandomUse

SpecRepeat == InitRepeat /\ [][NextRepeat]_vars

\* ------------------------------------------------------------------------
\* Concurrent invocations of generate_from_description on one event loop
\* ------------------------------------------------------------------------
\* Each invocation is a task of the asyncio loop.  The loop has one thread:
\* it runs one task at a time, from where the task stands to its next
\* "await" that actually suspends, and only then picks another task.
\*   idle         no request yet
\*   created      the task is scheduled and has not run
\*   await_route  suspended in "await client.post" / "await client.get"
\*   route_ready  the routing reply is there, the task can be resumed
\*   in_judge     inside client.chat.completions.create(...), a plain call
\*   done         the invocation returned

other_vars == <<gvars, rvars, vvars, fvars, hvars>>

\* The frame that holds the local variables of invocation t, all frames
\* taken for one: control_points, mapped, routed_coords and retries kept as
\* attributes of the shared ShapeGenerator instance.
frame_of_instance(t) == 1

\* The frame that holds the local variables of invocation t: every call of
\* the coroutine has its own.
frame_of(t) == t

\* What the collaborators reply to one invocation: the outline
\* _generate_control_points returns, how far the routed geometry lies from
\* the waypoints asked for, and the judge's reply.
TaskReplies ==
    {[outline |-> <<Coordinate(100, 40), Coordinate(180, 160),
                    Coordinate(20, 160), Coordinate(100, 40)>>,
      shift |-> Coordinate(120, 0),
      judge |-> [kind |-> "client_error", score |-> 0]],
     [outline |-> <<Coordinate(40, 40), Coordinate(40, 160),
                    Coordinate(200, 160)>>,
      shift |-> Coordinate(120, 0), judge |-> [kind |-> "score", score |-> 30]],
     [outline |-> <<Coordinate(40, 40), Coordinate(40, 160),
                    Coordinate(200, 160)>>,
      shift |-> Coordinate(0, 0), judge |-> [kind |-> "score", score |-> 100]]}

\* ShapeValidator.validate: the judge's result when there is a key and the
\* judge does not fail, the algorithmic scorer's otherwise.
validate(target_points, actual_points, reply) ==
    LET vision == IF glm_api_key
                  THEN _validate_with_vision(target_points, actual_points,
                                             VALIDATION_THRESHOLD, reply)
                  ELSE Raised
    IN  IF vision = Raised
        THEN _validate_algorithmic(target_points, actual_points,
                                   VALIDATION_THRESHOLD)
        ELSE vision

\* A request arrives and the invocation is scheduled as a task.
Submit(t) ==
    /\ t_pc[t] = "idle"
    /\ t_pc' = [t_pc EXCEPT ![t] = "created"]
    /\ UNCHANGED <<envvars, other_vars, loop_owner, t_retries, t_replies,
                   t_frame, t_response>>

\* The loop, running no task, picks a task that can run.
Dispatch(t) ==
    /\ loop_owner = NoTask
    /\ t_pc[t] \in {"created", "route_ready"}
    /\ loop_owner' = t
    /\ UNCHANGED <<envvars, other_vars, t_pc, t_retries, t_replies, t_frame,
                   t_response>>

\* Steps 1 to 3 run without suspending; "await client.post" of
\* _route_waypoints suspends the task and gives the thread back to the loop.
AwaitRoute(t) ==
    /\ loop_owner = t
    /\ t_pc[t] = "created"
    /\ t_frame' = [t_frame EXCEPT ![frame_of(t)] =
                      [control_points |-> t_replies[t].outline,
                       mapped |-> map_to_streets(t_replies[t].outline, HoodBbox),
                       routed_coords |-> <<>>]]
    /\ t_retries' = [t_retries EXCEPT ![frame_of(t)] = 0]
    /\ t_pc' = [t_pc EXCEPT ![t] = "await_route"]
    /\ loop_owner' = NoTask
    /\ UNCHANGED <<envvars, other_vars, t_replies, t_response>>

\* The routing collaborator answers (or fails, or times out).
RouteResponse(t) ==
    /\ t_pc[t] = "await_route"
    /\ t_pc' = [t_pc EXCEPT ![t] = "route_ready"]
    /\ UNCHANGED <<envvars, other_vars, loop_owner, t_retries, t_replies,
                   t_frame, t_response>>

\* routed = await self._route_waypoints(mapped) returns: the routed geometry
\* for the waypoints the frame holds.
Routed(t) == Shifted(t_frame[frame_of(t)].mapped, t_replies[t].shift)

\* What follows a validation: the loop "while not validation.passed and
\* retries < MAX_RETRIES" tightens, maps and awaits the routing again, or
\* the invocation returns.
AfterValidation(t, route, result) ==
    LET frame == t_frame[frame_of(t)]
        tightened == _tighten_control_points(frame.control_points, route)
    IN  /\ IF ~result.passed /\ t_retries[frame_of(t)] < MAX_RETRIES
           THEN /\ t_retries' = [t_retries EXCEPT ![frame_of(t)] = @ + 1]
                /\ t_frame' = [t_frame EXCEPT ![frame_of(t)] =
                                  [control_points |-> tightened,
                                   mapped |-> map_to_streets(tightened, HoodBbox),
                                   routed_coords |-> route]]
                /\ t_pc' = [t_pc EXCEPT ![t] = "await_route"]
                /\ t_response' = t_response
           ELSE /\ t_retries' = t_retries
                /\ t_frame' = [t_frame EXCEPT ![frame_of(t)].routed_coords = route]
                /\ t_pc' = [t_pc EXCEPT ![t] = "done"]
                /\ t_response' = [t_response EXCEPT ![t] =
                                     [control_points |-> frame.control_points,
                                      mapped |-> frame.mapped,
                                      routed_coords |-> route,
                                      retries |-> t_retries[frame_of(t)],
                                      validation |-> result]]
        /\ loop_owner' = NoTask
        /\ UNCHANGED <<envvars, other_vars, t_replies>>

\* validate without a judge: _validate_algorithmic, no await on the way.
ValidateAlgorithmic(t) ==
    /\ loop_owner = t
    /\ t_pc[t] = "route_ready"
    /\ ~glm_api_key
    /\ AfterValidation(t, Routed(t),
                       validate(t_frame[frame_of(t)].mapped, Routed(t),
                                t_replies[t].judge))

\* validate with a judge: _validate_with_vision calls
\* client.chat.completions.create(...) without await; the thread of the
\* loop stays in the call until the judge answers.
CallJudge(t) ==
    /\ loop_owner = t
    /\ t_pc[t] = "route_ready"
    /\ glm_api_key
    /\ t_frame' = [t_frame EXCEPT ![frame_of(t)].routed_coords = Routed(t)]
    /\ t_pc' = [t_pc EXCEPT ![t] = "in_judge"]
    /\ UNCHANGED <<envvars, other_vars, loop_owner, t_retries, t_replies,
                   t_response>>

\* The judge answers or the call fails (then the algorithmic scorer runs).
JudgeReturns(t) ==
    /\ loop_owner = t
    /\ t_pc[t] = "in_judge"
    /\ LET frame == t_frame[frame_of(t)]
       IN  AfterValidation(t, frame.routed_coords,
                           validate(frame.mapped, frame.routed_coords,
                                    t_replies[t].judge))

InitLoop ==
    /\ glm_api_key \in BOOLEAN
    /\ mapbox_token \in BOOLEAN
    /\ MAX_RETRIES \in 0..MaxRetryBudget
    /\ pc = "idle"
    /\ control_points = <<>>
    /\ mapped = <<>>
    /\ routed = NoResult
    /\ routed_coords = <<>>
    /\ waypoints = <<>>
    /\ validation = NoResult
    /\ retries = 0
    /\ response = NoResult
    /\ calls = <<>>
    /\ tighten_args = NoCall
    /\ best_score = 0
    /\ error = NoError
    /\ chunk_i = 0
    /\ all_coords = <<>>
    /\ total_dist = 0
    /\ total_dur = 0
    /\ v_pc = "idle"
    /\ v_entry = "none"
    /\ v_target = <<>>
    /\ v_actual = <<>>
    /\ v_threshold = VALIDATION_THRESHOLD
    /\ v_reply = NoReply
    /\ v_vision = "none"
    /\ v_calls = <<>>
    /\ v_result = NoResult
    /\ f_pc = "idle"
    /\ f_call = NoCall
    /\ f_out = NoResult
    /\ random_state = 0
    /\ s_log = <<>>
    /\ loop_owner = NoTask
    /\ t_pc = [t \in Tasks |-> "idle"]
    /\ t_retries = [t \in Tasks |-> 0]
    /\ t_replies \in [Tasks -> TaskReplies]
    /\ t_frame = [t \in Tasks |-> NoFrame]
    /\ t_response = [t \in Tasks |-> NoResult]

NextLoop ==
    \E t \in Tasks :
        \/ Submit(t)
        \/ Dispatch(t)
        \/ AwaitRoute(t)
        \/ RouteResponse(t)
        \/ ValidateAlgorithmic(t)
        \/ CallJudge(t)
        \/ JudgeReturns(t)

SpecLoop == InitLoop /\ [][NextLoop]_vars

\* ------------------------------------------------------------------------
\* Properties of generate_from_description (specification Spec)
\* ------------------------------------------------------------------------

\* How many of the calls made so far are named in S.
Count(S) == Len(SelectSeq(calls, LAMBDA c : c \in S))

Validations == {"validate_pass", "validate_fail"}

\* The invocation is over: it returned a response or an exception left it.
Ended == pc \in {"done", "raised"}

\* At most MAX_RETRIES tighten calls and at most MAX_RETRIES + 1 calls of
\* each of map_to_streets, _route_waypoints and validate.
CallBounds ==
    /\ Count({"tighten"}) <= MAX_RETRIES
    /\ Count({"map"}) <= MAX_RETRIES + 1
    /\ Count({"route"}) <= MAX_RETRIES + 1
    /\ Count(Validations) <= MAX_RETRIES + 1

\* A collaborator call that did not return: the HTTP client raised.
CollaboratorDidNotReturn == error.type = "httpx.HTTPError"

\* C1: for any validation outcomes and any retry budget R = MAX_RETRIES >= 0,
\* one invocation of generate_from_description makes at most R calls of
\* _tighten_control_points and at most R + 1 rounds of map_to_streets,
\* _route_waypoints and validate, and then returns: unless a collaborator
\* call failed to return, the invocation never ends with an exception.
C1_BoundedRoundsThenReturns ==
    /\ CallBounds
    /\ (pc = "raised" => CollaboratorDidNotReturn)

\* The initial validation and every retry validation returned passed=false.
RetriesExhausted ==
    /\ retries = MAX_RETRIES
    /\ Count({"validate_fail"}) = MAX_RETRIES + 1
    /\ Count({"validate_pass"}) = 0

\* C2: when the initial validation and every retry validation return
\* passed=false, generate_from_description does not raise: it returns a
\* DescribeResponse whose similarity_score is the score of the last
\* validation.
C2_ExhaustionReturnsLastScore ==
    (RetriesExhausted /\ Ended) =>
        /\ pc = "done"
        /\ response.similarity_score = validation.score

\* The call that may come directly after a call.
Follows(a, b) ==
    \/ a = "generate" /\ b = "map"
    \/ a = "map" /\ b = "route"
    \/ a = "route" /\ b \in Validations
    \/ a = "validate_fail" /\ b = "tighten"
    \/ a = "tighten" /\ b = "map"

\* C3: the calls of an invocation come in the order generate control points,
\* map_to_streets, _route_waypoints, validate; each retry is tighten, map,
\* route, validate in that order; and after a validate call that returned
\* passed=true no call is made.
C3_CallOrder ==
    /\ calls # <<>> => calls[1] = "generate"
    /\ \A i \in 1..(Len(calls) - 1) : Follows(calls[i], calls[i + 1])

\* A retry round ran and its validation passed, which ended the invocation.
C3_RetryThenPass ==
    /\ pc = "done"
    /\ Count({"tighten"}) >= 1
    /\ calls[Len(calls)] = "validate_pass"

\* C8: _route_waypoints never raises for a failure of the routing services
\* (an exception or a bad reply of the proxy, an exception or a malformed
\* reply of a direct Mapbox call): it always returns a routing outcome.
C8_RouteNeverRaises == error.raised_in # "_route_waypoints"

\* ------------------------------------------------------------------------
\* Properties of ShapeValidator (specification SpecValidate)
\* ------------------------------------------------------------------------

\* _validate_algorithmic has run on v_target, v_actual, v_threshold and
\* v_result is what it returned.
AlgorithmicReturned ==
    v_pc = "done" /\ (v_entry = "direct" \/ v_vision # "ok")

EmptyInput == v_target = <<>> \/ v_actual = <<>>

\* C4 as stated: every result of _validate_algorithmic, for any target and
\* actual points (empty and degenerate ones too) and any integer threshold,
\* has passed = (score >= threshold).
C4_PassedIffScoreReachesThreshold ==
    AlgorithmicReturned =>
        (v_result.passed <=> v_result.score >= v_threshold)

\* C4, amended: for non-empty point sets and a target of positive diameter
\* the result of _validate_algorithmic has passed = (score >= threshold),
\* for any integer threshold; for an empty point set or a zero-diameter
\* target it has score 0 and passed = false whatever the threshold.
C4_PassedIffScoreReachesThresholdUnlessDegenerate ==
    AlgorithmicReturned =>
        IF EmptyInput \/ _compute_diameter(v_target) = 0
        THEN v_result.score = 0 /\ ~v_result.passed
        ELSE v_result.passed <=> v_result.score >= v_threshold

\* A blended score that meets the threshold exactly, and passes.
C4_BlendedAtThreshold ==
    /\ AlgorithmicReturned
    /\ ~EmptyInput /\ _compute_diameter(v_target) > 0
    /\ v_result.score = v_threshold
    /\ v_result.passed

\* C5: every call of validate whose target points are non-empty and all
\* identical returns score 0 and passed=false, whatever the actual points
\* are and whether or not a perceptual judge is configured.
C5_DegenerateTargetScoresZero ==
    (/\ v_pc = "done"
     /\ v_entry = "validate"
     /\ v_target # <<>>
     /\ \A i \in 1..Len(v_target) : v_target[i] = v_target[1])
    => (v_result.score = 0 /\ ~v_result.passed)

\* C6: when the target or the actual point set is empty,
\* _validate_algorithmic returns score 0, passed=false, method "algorithmic"
\* without raising, and computes neither the diameter nor any metric.
C6_EmptyInputShortCircuits ==
    (AlgorithmicReturned /\ EmptyInput) =>
        /\ v_result # ValidationError
        /\ v_result.score = 0
        /\ ~v_result.passed
        /\ v_result.method = "algorithmic"
        /\ v_calls = <<>>

\* The scorer returned for an empty actual set and a threshold of 0.
C6_EmptyActualAtZeroThreshold ==
    /\ AlgorithmicReturned
    /\ v_target # <<>> /\ v_actual = <<>>
    /\ v_threshold = 0

\* The ways _validate_with_vision fails: the client cannot be had or
\* raises, the reply cannot be read, the score lies outside [0, 100], or
\* there is no point to draw the bounding box around.
VisionMustFail ==
    \/ v_reply.kind \in {"import_error", "client_error", "unparseable",
                         "not_object", "bad_score"}
    \/ v_reply.kind = "score" /\ (v_reply.score < 0 \/ v_reply.score > 100)
    \/ v_reply # NoReply /\ v_target = <<>> /\ v_actual = <<>>

\* C7: with a perceptual judge configured, when _validate_with_vision fails
\* for any reason validate does not raise and returns exactly what
\* _validate_algorithmic returns for the same target, actual and threshold.
C7_VisionFailureFallsBack ==
    (/\ glm_api_key
     /\ v_entry = "validate"
     /\ v_pc = "done"
     /\ VisionMustFail)
    => /\ v_result # Raised
       /\ v_result = _validate_algorithmic(v_target, v_actual, v_threshold)

\* The judge replied with a score above 100 and validate returned the
\* blended score of two non-degenerate shapes.
C7_OutOfRangeScoreFellBack ==
    /\ glm_api_key
    /\ v_entry = "validate"
    /\ v_pc = "done"
    /\ v_reply.kind = "score" /\ v_reply.score > 100
    /\ v_result.method = "algorithmic"
    /\ v_result.reasoning = "Blended"

DistinctPoints(points) == \E i, j \in 1..Len(points) : points[i] # points[j]

\* C9: for a target with at least two distinct points,
\* _validate_algorithmic(target, target, 45) returns score >= 90 and
\* passed=true.
C9_IdenticalShapesScoreHigh ==
    (/\ AlgorithmicReturned
     /\ v_threshold = VALIDATION_THRESHOLD
     /\ v_actual = v_target
     /\ DistinctPoints(v_target))
    => (v_result.score >= 90 /\ v_result.passed)

\* A target of two distinct points was scored against itself.
C9_SegmentAgainstItself ==
    /\ AlgorithmicReturned
    /\ v_entry = "direct"
    /\ v_threshold = VALIDATION_THRESHOLD
    /\ v_actual = v_target
    /\ DistinctPoints(v_target)

\* Every actual point is farther from every target point than the target's
\* diameter.
FartherThanDiameter(target, actual) ==
    \A i \in 1..Len(target), j \in 1..Len(actual) :
        haversine_distance_m(actual[j], target[i]) > _compute_diameter(target)

\* The two strokes, drawn as _raster_iou_score draws them, share no pixel.
StrokesDisjoint(target, actual) ==
    LET bbox == _compute_shared_bbox(target, actual)
    IN  rasterize_route(target, bbox, RASTER_SIZE, RASTER_LINE_WIDTH)
        \cap rasterize_route(actual, bbox, RASTER_SIZE, RASTER_LINE_WIDTH) = {}

\* C10: if every actual point is farther from every target point than the
\* target's diameter and the two rasterized strokes do not overlap,
\* _validate_algorithmic returns a score below 45 and passed=false at
\* threshold 45.
C10_DistantShapesFail ==
    (/\ AlgorithmicReturned
     /\ v_threshold = VALIDATION_THRESHOLD
     /\ FartherThanDiameter(v_target, v_actual)
     /\ (EmptyInput \/ StrokesDisjoint(v_target, v_actual)))
    => (v_result.score < 45 /\ ~v_result.passed)

\* A target of positive diameter was scored against a distant stroke.
C10_DistantStroke ==
    /\ AlgorithmicReturned
    /\ v_threshold = VALIDATION_THRESHOLD
    /\ _compute_diameter(v_target) > 0
    /\ Len(v_actual) >= 2 /\ DistinctPoints(v_actual)
    /\ FartherThanDiameter(v_target, v_actual)
    /\ StrokesDisjoint(v_target, v_actual)


\* ------------------------------------------------------------------------
\* Properties of StreetMapper and _resample_curve (specification SpecMapper)
\* ------------------------------------------------------------------------

Returned(op) == f_pc = "done" /\ f_call.op = op

\* The points map_to_streets hands to deduplicate.
DensePoints ==
    densify(scale_to_bbox(f_call.points, f_call.bbox),
            MAX_SEGMENT_M * DIST_SCALE)

\* The index in DensePoints of each point of the result.
DenseIndices == deduplicate_indices(DensePoints, MIN_DISTANCE_M * DIST_SCALE)

Pairs(out) == 1..(Len(out) - 1)

\* Points k and k + 1 of the result are at least m metres apart.
Apart(out, k, m) ==
    haversine_distance_m(out[k], out[k + 1]) >= m * DIST_SCALE

\* Point k + 1 of the result has a successor in the dense points and the
\* bearing changes by more than 20 degrees at it.
KeptForTurn(out, k) ==
    LET i == DenseIndices[k + 1]
    IN  /\ i < Len(DensePoints)
        /\ angle_change_gt_20(_bearing_deg(out[k], DensePoints[i]),
                              _bearing_deg(DensePoints[i], DensePoints[i + 1]))

\* Point k + 1 of the result is a dense point, not the last, at which the
\* bearing from point k to the next dense point changes by more than 20
\* degrees.
TurnsAt(out, k) ==
    \E i \in 1..(Len(DensePoints) - 1) :
        /\ DensePoints[i] = out[k + 1]
        /\ angle_change_gt_20(_bearing_deg(out[k], DensePoints[i]),
                              _bearing_deg(DensePoints[i], DensePoints[i + 1]))

IsDenseSelection(out) ==
    /\ Len(out) = Len(DenseIndices)
    /\ \A k \in 1..Len(out) : out[k] = DensePoints[DenseIndices[k]]

\* C11 as stated: in the result of map_to_streets every consecutive pair is
\* at least 12 m apart or its later point was kept because the bearing
\* changes by more than 20 degrees at it, the pair that ends with the last
\* point included.
C11_PairsApartOrTurn ==
    Returned("map_to_streets") =>
        /\ IsDenseSelection(f_out)
        /\ \A k \in Pairs(f_out) :
              Apart(f_out, k, MIN_DISTANCE_M) \/ KeptForTurn(f_out, k)

\* C11, amended: every consecutive pair of the result of map_to_streets is
\* at least 12 m apart, or its later point was kept because the bearing
\* changes by more than 20 degrees at it, or its later point is the last
\* point, which is kept whatever its distance and bearing.
C11_PairsApartOrTurnOrLast ==
    Returned("map_to_streets") =>
        /\ IsDenseSelection(f_out)
        /\ \A k \in Pairs(f_out) :
              \/ Apart(f_out, k, MIN_DISTANCE_M)
              \/ KeptForTurn(f_out, k)
              \/ k + 1 = Len(f_out)

\* A result with a pair closer than 12 m whose later point, not the last
\* one, was kept for the turn at it.
C11_CloseCornerKept ==
    /\ Returned("map_to_streets")
    /\ \E k \in Pairs(f_out) :
          /\ ~Apart(f_out, k, MIN_DISTANCE_M)
          /\ KeptForTurn(f_out, k)
          /\ k + 1 < Len(f_out)

SegmentsNeeded(d, m) ==
    IF d <= m THEN 1
    ELSE CHOOSE n \in 2..(d \div m + 1) : (n - 1) * m < d /\ d <= n * m

SegmentLength(points, i) == haversine_distance_m(points[i], points[i + 1])

\* The position in the densified polyline of point i of the input.
RECURSIVE PositionOf(_, _, _)
PositionOf(points, i, m) ==
    IF i = 1 THEN 1
    ELSE PositionOf(points, i - 1, m)
         + SegmentsNeeded(SegmentLength(points, i - 1), m)

\* p lies j n-ths of the way from a to b, to the nearest lattice point.
AtFraction(p, a, b, j, n) ==
    /\ 2 * Abs(n * (p.lng - a.lng) - j * (b.lng - a.lng)) <= n
    /\ 2 * Abs(n * (p.lat - a.lat) - j * (b.lat - a.lat)) <= n

\* C13: for a polyline of at least two points and a bound M > 0, every
\* consecutive pair of densify(points, M) is at most M apart; a segment
\* longer than M gets ceil(d / M) - 1 evenly spaced interior points and a
\* segment not longer than M gets none.
C13_DensifyBoundsSegments ==
    (Returned("densify") /\ Len(f_call.points) >= 2) =>
        LET points == f_call.points
            m == f_call.arg * DIST_SCALE
        IN  /\ \A k \in Pairs(f_out) :
                  haversine_distance_m(f_out[k], f_out[k + 1]) <= m
            /\ Len(f_out) = PositionOf(points, Len(points), m)
            /\ \A i \in Pairs(points) :
                  LET n == SegmentsNeeded(SegmentLength(points, i), m)
                      s == PositionOf(points, i, m)
                  IN  \A j \in 0..n :
                          AtFraction(f_out[s + j], points[i], points[i + 1],
                                     j, n)

\* A densified polyline with a segment that was split in three or more and
\* a segment of positive length that was left whole.
C13_LongAndShortSegment ==
    /\ Returned("densify")
    /\ Len(f_call.points) >= 2
    /\ \E i, j \in Pairs(f_call.points) :
          /\ SegmentLength(f_call.points, i) > 2 * f_call.arg * DIST_SCALE
          /\ SegmentLength(f_call.points, j) > 0
          /\ SegmentLength(f_call.points, j) <= f_call.arg * DIST_SCALE
    /\ Len(f_out) >= Len(f_call.points) + 2


\* a can be obtained from b by deleting elements of b.
RECURSIVE IsSubsequence(_, _)
IsSubsequence(a, b) ==
    IF a = <<>> THEN TRUE
    ELSE IF b = <<>> THEN FALSE
    ELSE IF a[1] = b[1] THEN IsSubsequence(Tail(a), Tail(b))
    ELSE IsSubsequence(a, Tail(b))

\* C14: for a non-empty input, the output of deduplicate begins with the
\* input's first point, ends with a point equal to the input's last point,
\* and is a subsequence of the input.
C14_DeduplicateKeepsEndsAndOrder ==
    (Returned("deduplicate") /\ f_call.points # <<>>) =>
        /\ f_out # <<>>
        /\ f_out[1] = f_call.points[1]
        /\ f_out[Len(f_out)] = f_call.points[Len(f_call.points)]
        /\ IsSubsequence(f_out, f_call.points)

\* A deduplicated polyline that lost a point and whose last point is closer
\* than the minimum distance to the one before it.
C14_CloseLastPointKept ==
    /\ Returned("deduplicate")
    /\ 1 < Len(f_out)
    /\ Len(f_out) < Len(f_call.points)
    /\ ~Apart(f_out, Len(f_out) - 1, f_call.arg)


\* The target bbox shrunk by a tenth of its width and height on each side
\* contains p.
InPaddedBbox(p, b) ==
    /\ 10 * (p.lng - b.min_lng) >= width_deg(b)
    /\ 10 * (b.max_lng - p.lng) >= width_deg(b)
    /\ 10 * (p.lat - b.min_lat) >= height_deg(b)
    /\ 10 * (b.max_lat - p.lat) >= height_deg(b)

\* The bbox of points and b have the same centre, to within the lattice
\* rounding of the two extremes.
CentredOn(points, b) ==
    /\ Abs(SeqMin(Lngs(points)) + SeqMax(Lngs(points))
           - (b.min_lng + b.max_lng)) <= 1
    /\ Abs(SeqMin(Lats(points)) + SeqMax(Lats(points))
           - (b.min_lat + b.max_lat)) <= 1

\* The points of out are in the order of the points they are the images of.
SameOrder(in, out) ==
    \A i, j \in 1..Len(in) :
        /\ in[i].lng <= in[j].lng => out[i].lng <= out[j].lng
        /\ in[i].lat <= in[j].lat => out[i].lat <= out[j].lat

\* C15: for non-empty control points and a target bbox with min < max on
\* both axes, scale_to_bbox returns as many points in the same order, each
\* inside the target bbox shrunk by the 10% padding on each side, and the
\* bbox of the returned points is centred on the target's centre.
C15_ScaledInsidePaddedBboxAndCentred ==
    (Returned("scale_to_bbox") /\ f_call.points # <<>>) =>
        /\ Len(f_out) = Len(f_call.points)
        /\ SameOrder(f_call.points, f_out)
        /\ \A i \in 1..Len(f_out) : InPaddedBbox(f_out[i], f_call.bbox)
        /\ CentredOn(f_out, f_call.bbox)

\* A scaled polyline that spans the padded width of its target bbox and
\* less than the padded height.
C15_WidthFillsPaddedBbox ==
    /\ Returned("scale_to_bbox")
    /\ Len(f_out) >= 3
    /\ 5 * (SeqMax(Lngs(f_out)) - SeqMin(Lngs(f_out)))
          = 4 * width_deg(f_call.bbox)
    /\ 5 * (SeqMax(Lats(f_out)) - SeqMin(Lats(f_out)))
          < 4 * height_deg(f_call.bbox)
    /\ SeqMax(Lats(f_out)) > SeqMin(Lats(f_out))


\* C16: _resample_curve(points, n) returns exactly n points for every
\* n >= 2 and every non-empty polyline; for a polyline of zero arc length
\* (a single point, or several identical points) these are n copies of its
\* first point.
C16_ResampleReturnsExactlyN ==
    (Returned("_resample_curve") /\ f_call.points # <<>> /\ f_call.arg >= 2) =>
        /\ Len(f_out) = f_call.arg
        /\ PathLength(f_call.points) = 0 =>
               \A k \in 1..Len(f_out) : f_out[k] = f_call.points[1]


\* ------------------------------------------------------------------------
\* Properties of the results of validate (specification SpecValidate)
\* ------------------------------------------------------------------------

ValidationReturned == v_pc = "done"

IsValidationResult(r) ==
    DOMAIN r = {"score", "passed", "method", "reasoning"}

\* C18: every ValidationResult returned by validate or by
\* _validate_algorithmic has 0 <= score <= 100, for any inputs and any reply
\* of the judge.
C18_ScoreWithin0And100 ==
    ValidationReturned =>
        /\ IsValidationResult(v_result)
        /\ v_result.score >= 0
        /\ v_result.score <= 100

\* The judge replied with a negative score and validate returned a result.
C18_NegativeJudgeScoreReplaced ==
    /\ ValidationReturned
    /\ v_entry = "validate"
    /\ v_reply.kind = "score" /\ v_reply.score < 0
    /\ IsValidationResult(v_result)

\* The result in v_result came from the judge (_validate_with_vision
\* returned it), not from the blended scorer.
JudgeProduced == v_vision = "ok"

\* C19 as stated: the method tag of every ValidationResult returned by
\* validate is algorithmic or perceptual: algorithmic when the blended
\* scorer produced it, perceptual when the judge did.
C19_MethodAlgorithmicOrPerceptual ==
    (ValidationReturned /\ v_entry = "validate") =>
        /\ v_result.method \in {"algorithmic", "perceptual"}
        /\ v_result.method = "perceptual" <=> JudgeProduced
        /\ v_result.method = "algorithmic" <=> ~JudgeProduced

\* C19, amended: the method tag of every ValidationResult returned by
\* validate is algorithmic or glm-4v: algorithmic when the blended scorer
\* produced it, glm-4v when the judge did.
C19_MethodAlgorithmicOrGlm4v ==
    (ValidationReturned /\ v_entry = "validate") =>
        /\ v_result.method \in {"algorithmic", "glm-4v"}
        /\ v_result.method = "glm-4v" <=> JudgeProduced
        /\ v_result.method = "algorithmic" <=> ~JudgeProduced

\* validate returned the judge's result for two non-empty shapes.
C19_JudgeResultReturned ==
    /\ ValidationReturned
    /\ v_entry = "validate"
    /\ JudgeProduced
    /\ v_target # <<>> /\ v_actual # <<>>
    /\ v_result.score = v_reply.score


\* ------------------------------------------------------------------------
\* Repeated calls of _validate_algorithmic (specification SpecRepeat)
\* ------------------------------------------------------------------------

WaitsForCollaborator(t) == t_pc[t] \in {"await_route", "in_judge"}

\* Task t is in flight and has a next step of its own to take.
CanBeRun(t) == t_pc[t] \in {"created", "route_ready"}

\* The wait for the routing collaborator is a suspension point: a task
\* waiting for it does not hold the thread of the loop.
RouteWaitIsSuspensionPoint ==
    \A t \in Tasks : t_pc[t] = "await_route" => loop_owner # t

\* The thread of the loop can take a step of task t: Dispatch(t) needs the
\* loop to run no task, and AwaitRoute(t), ValidateAlgorithmic(t) and
\* CallJudge(t) need it to be running t.
ThreadCanRun(t) == loop_owner \in {NoTask, t}

\* C20: while one generate_from_description invocation waits for the
\* routing or for the perceptual-judge collaborator, any other in-flight
\* invocation on the same event loop can take steps: both waits are
\* suspension points.
C20_WaitsDoNotBlockOtherInvocations ==
    \A t, u \in Tasks :
        (t # u /\ WaitsForCollaborator(t) /\ CanBeRun(u)) =>
            /\ loop_owner # t
            /\ ThreadCanRun(u)


\* ------------------------------------------------------------------------
\* Further properties of deduplicate (specification SpecMapper)
\* ------------------------------------------------------------------------

\* C30: the output of deduplicate never contains two consecutive equal
\* coordinates: a point at distance 0 from the last retained point is
\* always dropped, whatever the bearing to the next point is.
C30_NoConsecutiveEqualPoints ==
    Returned("deduplicate") =>
        \A k \in Pairs(f_out) : f_out[k] # f_out[k + 1]


\* ------------------------------------------------------------------------
\* Properties of _tighten_control_points and _ordered_sampling_score
\* (specification SpecMapper)
\* ------------------------------------------------------------------------

\* The place in the tightened outline of point i of the input, when the
\* segments in S got a midpoint.
PlaceOf(i, S) == i + Cardinality({j \in S : j < i})

IsMidpoint(p, a, b) ==
    /\ 2 * p.lng = a.lng + b.lng
    /\ 2 * p.lat = a.lat + b.lat

\* out is points with one new point, the midpoint, in each segment of S and
\* nothing else new.
TightenedIn(points, out, S) ==
    /\ Len(out) = Len(points) + Cardinality(S)
    /\ \A i \in 1..Len(points) : out[PlaceOf(i, S)] = points[i]
    /\ \A j \in S : IsMidpoint(out[PlaceOf(j, S) + 1], points[j], points[j + 1])

\* How many segments of m are to be selected.
WorseHalf(m) == Max2(1, m \div 2)

\* C24: for a target outline with m >= 1 segments, _tighten_control_points
\* selects exactly max(1, floor(m/2)) segments, and the deviation of every
\* selected segment (distance from its midpoint to the nearest actual
\* point) is at least the deviation of every unselected segment.
C24_TightensWorseHalf ==
    (Returned("_tighten_control_points") /\ Len(f_call.points) >= 2) =>
        LET points == f_call.points
            m == Len(points) - 1
            dev(i) == segment_deviation(points, f_call.actual_points, i)
        IN  \E S \in SUBSET (1..m) :
                /\ Cardinality(S) = WorseHalf(m)
                /\ TightenedIn(points, f_out, S)
                /\ \A i \in S : \A j \in (1..m) \ S : dev(i) >= dev(j)

\* An outline of six segments was tightened against a route whose points
\* are nearer to some of its segments than to others.
C24_ThreeOfSixSegmentsTightened ==
    /\ Returned("_tighten_control_points")
    /\ Len(f_call.points) = 7
    /\ Len(f_out) = 10
    /\ \E i, j \in 1..6 :
          segment_deviation(f_call.points, f_call.actual_points, i)
              > segment_deviation(f_call.points, f_call.actual_points, j)

\* C25: the output of _tighten_control_points contains every input control
\* point in its original order with the first and last point unchanged,
\* has exactly one new point, the coordinate-wise midpoint, between the
\* endpoints of each selected segment and nothing new between those of an
\* unselected one, so for n >= 2 input points its length is
\* n + max(1, floor((n-1)/2)); an input of fewer than 2 points is returned
\* unchanged.
C25_TightenKeepsPointsAndAddsMidpoints ==
    Returned("_tighten_control_points") =>
        LET points == f_call.points
            n == Len(points)
        IN  IF n < 2 THEN f_out = points
            ELSE /\ Len(f_out) = n + WorseHalf(n - 1)
                 /\ f_out[1] = points[1]
                 /\ f_out[Len(f_out)] = points[n]
                 /\ IsSubsequence(points, f_out)
                 /\ TightenedIn(points, f_out,
                                segments_to_tighten(points,
                                                    f_call.actual_points))

\* An outline of five segments was tightened: two midpoints were added and
\* three segments were left as they were.
C25_TwoOfFiveSegmentsTightened ==
    /\ Returned("_tighten_control_points")
    /\ Len(f_call.points) = 6
    /\ Len(f_out) = 8
    /\ f_call.actual_points # <<>>

\* C29: whenever target and actual are both non-empty and the target
\* diameter is positive, _ordered_sampling_score averages the distance over
\* exactly n_samples (50) index-paired points, also when the actual
\* polyline has a single point or fewer than 50 points.
C29_OrderedSamplingAveragesOverNSamples ==
    (/\ Returned("_ordered_sampling_score")
     /\ f_call.points # <<>>
     /\ f_call.actual_points # <<>>
     /\ _compute_diameter(f_call.points) > 0)
    => Len(f_out.dists) = N_SAMPLES


\* C22: for a fixed non-degenerate target and a fixed translation
\* direction, if actual_2 is the target translated farther along that
\* direction than actual_1, then the blended score of
\* _validate_algorithmic(target, actual_2) is not greater than that of
\* _validate_algorithmic(target, actual_1).
C22_ScoreNonIncreasingInShift ==
    (/\ Returned("_validate_algorithmic")
     /\ _compute_diameter(f_call.points) > 0
     /\ f_call.amounts[1] < f_call.amounts[2])
    => f_out[2].score <= f_out[1].score


\* ------------------------------------------------------------------------
\* The rounds of one invocation
\* ------------------------------------------------------------------------

\* C26: on retry k, _tighten_control_points receives the control points
\* produced by retry k - 1 (the seed outline for k = 1) together with the
\* routed coordinates of the most recent routing call, never those of an
\* earlier round, and each round's validation compares the waypoints mapped
\* in that round with the route obtained in that round.
C26_RetryTightensAgainstLatestRoute ==
    /\ (retries = 0 /\ pc # "generate") => control_points \in SeedOutlines
    \* just after the tightening of a retry, before anything of the new
    \* round is computed: the arguments were the outline and the route of
    \* the round that has just failed
    /\ (retries > 0 /\ pc = "map") =>
          /\ control_points =
                 _tighten_control_points(tighten_args.control_points,
                                         tighten_args.routed_coords)
          /\ mapped = map_to_streets(tighten_args.control_points, HoodBbox)
          /\ tighten_args.routed_coords = routed.coordinates
          /\ tighten_args.routed_coords = v_actual
    \* a round's validation has returned
    /\ pc = "loop" =>
          /\ mapped = map_to_streets(control_points, HoodBbox)
          /\ routed_coords = routed.coordinates
          /\ v_target = mapped
          /\ v_actual = routed_coords

\* The second retry has tightened the outline of the first retry against
\* the route of the first retry's round, and midpoints were added.
C26_SecondRetryTightened ==
    /\ retries = 2
    /\ pc = "map"
    /\ tighten_args.routed_coords # <<>>
    /\ tighten_args.control_points \notin SeedOutlines
    /\ Len(control_points) > Len(tighten_args.control_points)

\* C27: the result returned by generate_from_description is the best one
\* obtained: its similarity_score is not less than any validation score
\* computed during that invocation, also after the retry budget is exhausted.
\* (best_score is the greatest of the scores the validations of the
\* invocation have returned.)
C27_ReturnsBestScore ==
    pc = "done" => response.similarity_score >= best_score

\* C27, amended: the similarity_score returned is the score of the last
\* validation computed during that invocation, also after the retry budget
\* is exhausted.
C27_ReturnsLastScore ==
    pc = "done" =>
        /\ response.similarity_score = v_result.score
        /\ v_target = mapped
        /\ v_actual = routed_coords

\* A failed result is returned after the retry budget is exhausted.
C27_ReturnedAfterBudgetExhausted ==
    /\ pc = "done"
    /\ retries > 0
    /\ retries = MAX_RETRIES
    /\ ~validation.passed
    /\ response.similarity_score < VALIDATION_THRESHOLD

\* C28: in every DescribeResponse, shape.control_points, routed_coordinates,
\* distance_km, duration_minutes, waypoints and similarity_score all belong
\* to the same final round: the score is the validation of the route
\* obtained by mapping and routing exactly the returned control points,
\* after any number of retries.
C28_ResponseIsOfFinalRound ==
    pc = "done" =>
        /\ response.shape.control_points = control_points
        /\ retries > 0 =>
              control_points =
                  _tighten_control_points(tighten_args.control_points,
                                          tighten_args.routed_coords)
        /\ v_target = map_to_streets(response.shape.control_points, HoodBbox)
        /\ v_actual = response.routed_coordinates
        /\ response.routed_coordinates = routed.coordinates
        /\ response.distance_km = routed.distance_km
        /\ response.duration_minutes = routed.duration_minutes
        /\ response.waypoints = _extract_waypoints(response.routed_coordinates)
        /\ response.similarity_score = v_result.score

\* A response after two retries whose route is not the one the last
\* tightening was given and whose waypoints are not those of that route.
C28_ResponseAfterRetries ==
    /\ pc = "done"
    /\ retries = 2
    /\ tighten_args.routed_coords # response.routed_coordinates
    /\ _extract_waypoints(tighten_args.routed_coords) # response.waypoints


\* ------------------------------------------------------------------------
\* generate_for_neighborhood
\* ------------------------------------------------------------------------

\* C23: for a known neighborhood and 1 <= count <= 6,
\* generate_for_neighborhood returns exactly count ideas, whether they come
\* from the language model or from the template fallback (the fallback is
\* used when the model is absent, fails, or yields no idea).
C23_ExactlyCountIdeas ==
    (/\ Returned("generate_for_neighborhood")
     /\ f_call.neighborhood \in Neighborhoods
     /\ f_call.count \in 1..6)
    => /\ f_out.error = "none"
       /\ Len(f_out.ideas) = f_call.count


\* ------------------------------------------------------------------------
\* Concurrent invocations and their local state (specification SpecLoop)
\* ------------------------------------------------------------------------

\* What generate_from_description returns when it runs alone with the given
\* collaborator replies, from the outline control_points in retry round
\* retry_count on.
RECURSIVE RunAlone(_, _, _)
RunAlone(replies, outline, retry_count) ==
    LET waypoints_mapped == map_to_streets(outline, HoodBbox)
        route == Shifted(waypoints_mapped, replies.shift)
        result == validate(waypoints_mapped, route, replies.judge)
    IN  IF ~result.passed /\ retry_count < MAX_RETRIES
        THEN RunAlone(replies, _tighten_control_points(outline, route),
                      retry_count + 1)
        ELSE [control_points |-> outline, mapped |-> waypoints_mapped,
              routed_coords |-> route, retries |-> retry_count,
              validation |-> result]

\* C21: for any interleaving at await points of two concurrent
\* generate_from_description invocations on the same shared ShapeGenerator
\* instance, each invocation's control points, mapped waypoints, routed
\* coordinates, retry counter and validation are its own: each returns what
\* it would return if run alone with the same collaborator replies.
C21_ConcurrentInvocationsAreIsolated ==
    \A t \in Tasks :
        t_pc[t] = "done" =>
            t_response[t] = RunAlone(t_replies[t], t_replies[t].outline, 0)

\* Both invocations have returned after retries, from different outlines
\* and with different results.
C21_BothReturnedAfterRetries ==
    /\ \A t \in Tasks : t_pc[t] = "done" /\ t_response[t].retries > 0
    /\ t_replies[1].outline # t_replies[2].outline
    /\ t_response[1].control_points # t_response[2].control_points
    /\ t_response[1].validation # t_response[2].validation

=============================================================================
